---- MODULE Spec2Model ----
(***************************************************************************)
(* Model of the Dynatrace A2A agent: the executor (agent_executor.py) with *)
(* its regular-expression intent classifier _parse_intent and the          *)
(* dispatcher in execute, and the skills of DynatraceAgent                 *)
(* (dynatrace_agent.py) as far as their calls to Dynatrace and to the AI   *)
(* service and the texts they return are concerned.  Text is a sequence of *)
(* one-character strings; Python's re module is modelled by a backtracking *)
(* matcher over a pattern syntax tree, so that leftmost-first search,      *)
(* greedy repetition, ordered alternation and captured groups behave as in *)
(* the interpreter.  A character outside ASCII is written as one element   *)
(* named by its code point; the headings and data values of the skills'    *)
(* texts are shortened.  The module also holds cancel of the executor, the *)
(* skill list of the agent card (main.py), and the joke agent              *)
(* (joke_agent.py) behind the classifier that section 4.2 of the           *)
(* specification describes.                                                *)
(***************************************************************************)
EXTENDS Integers, Sequences, FiniteSets, TLC

\* ------------------------------------------------------------------------
\* Characters, str.lower / str.upper / str.strip
\* ------------------------------------------------------------------------
UpperLetters ==
  <<"A","B","C","D","E","F","G","H","I","J","K","L","M",
    "N","O","P","Q","R","S","T","U","V","W","X","Y","Z">>

LowerLetters ==
  <<"a","b","c","d","e","f","g","h","i","j","k","l","m",
    "n","o","p","q","r","s","t","u","v","w","x","y","z">>

UpperSet == {UpperLetters[k] : k \in 1..26}

LowerSet == {LowerLetters[k] : k \in 1..26}

\* [0-9]
Digit == {"0","1","2","3","4","5","6","7","8","9"}

\* \d in a str pattern: every Unicode decimal digit; the digits outside
\* ASCII are represented by ARABIC-INDIC DIGIT THREE
DecimalDigit == Digit \cup {"U+0663"}

\* \s and the characters str.strip() removes (vertical tab and the
\* separators \x1c-\x1f are left out)
Space == {" ", "\t", "\n", "\r", "\f"}

\* ["']
Quote == {"\"", "'"}

\* [a-zA-Z0-9_\-\.]
NameChar == LowerSet \cup UpperSet \cup Digit \cup {"_", "-", "."}

\* [A-Z0-9]
UpperAlnum == UpperSet \cup Digit

LowerMap == [c \in UpperSet |-> LowerLetters[CHOOSE k \in 1..26 : UpperLetters[k] = c]]

UpperMap == [c \in LowerSet |-> UpperLetters[CHOOSE k \in 1..26 : LowerLetters[k] = c]]

LowerChar(c) == IF c \in UpperSet THEN LowerMap[c] ELSE c

UpperChar(c) == IF c \in LowerSet THEN UpperMap[c] ELSE c

lower(s) == [k \in 1..Len(s) |-> LowerChar(s[k])]

upper(s) == [k \in 1..Len(s) |-> UpperChar(s[k])]

RECURSIVE lstrip(_)
lstrip(s) == IF Len(s) > 0 /\ s[1] \in Space THEN lstrip(Tail(s)) ELSE s

RECURSIVE rstrip(_)
rstrip(s) ==
  IF Len(s) > 0 /\ s[Len(s)] \in Space THEN rstrip(SubSeq(s, 1, Len(s) - 1)) ELSE s

strip(s) == rstrip(lstrip(s))

\* ------------------------------------------------------------------------
\* Python re: pattern nodes.  A pattern is a sequence of nodes.
\* ------------------------------------------------------------------------
\* literal text
Lit(w) == [t |-> "lit", w |-> w]

\* one character of a class: [..]
In(S) == [t |-> "in", s |-> S]

\* greedy repetition of a class: [..]* (mn = 0) or [..]+ (mn = 1)
Rep(S, mn) == [t |-> "rep", s |-> S, mn |-> mn]

\* greedy optional: (?:..)?
Opt(rs) == [t |-> "opt", rs |-> rs]

\* ordered alternation: (?:a|b|c)
Alt(alts) == [t |-> "alt", alts |-> alts]

\* capturing group number k
Grp(k, rs) == [t |-> "grp", k |-> k, rs |-> rs]

\* end of capturing group k that was opened at position from
GrpEnd(k, from) == [t |-> "gend", k |-> k, from |-> from]

\* ^
Bol == [t |-> "bol"]

\* $
Eol == [t |-> "eol"]

NoGroups == << <<0, 0>>, <<0, 0>> >>

NoMatch == [ok |-> FALSE, b |-> 0, e |-> 0, g |-> NoGroups]

\* character comparison, under re.IGNORECASE when ic
CharEq(a, b, ic) == IF ic THEN LowerChar(a) = LowerChar(b) ELSE a = b

InClass(c, S, ic) == c \in S \/ (ic /\ (LowerChar(c) \in S \/ UpperChar(c) \in S))

LitAt(w, s, i, ic) ==
  /\ i + Len(w) - 1 <= Len(s)
  /\ \A k \in 1..Len(w) : CharEq(s[i + k - 1], w[k], ic)

\* length of the longest run of class characters starting at position i
RECURSIVE Run(_, _, _, _)
Run(S, s, i, ic) ==
  IF i <= Len(s) /\ InClass(s[i], S, ic) THEN 1 + Run(S, s, i + 1, ic) ELSE 0

\* The first successful way (in backtracking order) to match the node
\* sequence rs against s starting at position i: [ok, b, e, g] with e the
\* position after the match and g[k] the span of group k.
RECURSIVE MatchAt(_, _, _, _)
RECURSIVE TryAlt(_, _, _, _, _, _)
RECURSIVE TryRep(_, _, _, _, _, _)
MatchAt(rs, s, i, ic) ==
  IF Len(rs) = 0 THEN [ok |-> TRUE, b |-> i, e |-> i, g |-> NoGroups]
  ELSE
    LET h == Head(rs)
        tl == Tail(rs)
    IN CASE h.t = "lit" ->
              IF LitAt(h.w, s, i, ic) THEN MatchAt(tl, s, i + Len(h.w), ic) ELSE NoMatch
         [] h.t = "in" ->
              IF i <= Len(s) /\ InClass(s[i], h.s, ic)
              THEN MatchAt(tl, s, i + 1, ic) ELSE NoMatch
         [] h.t = "rep" -> TryRep(Run(h.s, s, i, ic), h.mn, tl, s, i, ic)
         [] h.t = "opt" ->
              LET a == MatchAt(h.rs \o tl, s, i, ic)
              IN IF a.ok THEN a ELSE MatchAt(tl, s, i, ic)
         [] h.t = "alt" -> TryAlt(h.alts, 1, tl, s, i, ic)
         [] h.t = "grp" -> MatchAt(h.rs \o <<GrpEnd(h.k, i)>> \o tl, s, i, ic)
         [] h.t = "gend" ->
              LET a == MatchAt(tl, s, i, ic)
              IN IF a.ok THEN [a EXCEPT !.g[h.k] = <<h.from, i>>] ELSE a
         [] h.t = "bol" -> IF i = 1 THEN MatchAt(tl, s, i, ic) ELSE NoMatch
         [] h.t = "eol" ->
              IF i = Len(s) + 1 \/ (i = Len(s) /\ s[i] = "\n")
              THEN MatchAt(tl, s, i, ic) ELSE NoMatch

\* alternatives are tried left to right
TryAlt(alts, k, tl, s, i, ic) ==
  IF k > Len(alts) THEN NoMatch
  ELSE LET a == MatchAt(alts[k] \o tl, s, i, ic)
       IN IF a.ok THEN a ELSE TryAlt(alts, k + 1, tl, s, i, ic)

\* a greedy repetition takes n characters first, then gives them back one by one
TryRep(n, mn, tl, s, i, ic) ==
  IF n < mn THEN NoMatch
  ELSE LET a == MatchAt(tl, s, i + n, ic)
       IN IF a.ok THEN a ELSE TryRep(n - 1, mn, tl, s, i, ic)

RECURSIVE SearchFrom(_, _, _, _)
SearchFrom(rs, s, i, ic) ==
  IF i > Len(s) + 1 THEN NoMatch
  ELSE LET a == MatchAt(rs, s, i, ic)
       IN IF a.ok THEN [a EXCEPT !.b = i] ELSE SearchFrom(rs, s, i + 1, ic)

\* re.search(pattern, s [, re.IGNORECASE]): leftmost match
re_search(pattern, s, ic) == SearchFrom(pattern, s, 1, ic)

\* re.match(pattern, s [, re.IGNORECASE]): match at the start of s
re_match(pattern, s, ic) == MatchAt(pattern, s, 1, ic)

\* m.group(k)
group(s, m, k) == SubSeq(s, m.g[k][1], m.g[k][2] - 1)

\* ------------------------------------------------------------------------
\* The patterns of _parse_intent
\* ------------------------------------------------------------------------
\* agent_executor.py:56-62
\*   r"(?:show|list|get|what are|any)\s*(?:the\s*)?(?:open\s*)?problems?"
\*   r"what(?:'s| is) wrong"
\*   r"any\s*(?:open\s*)?issues?"
\*   r"current\s*(?:problems?|issues?|alerts?)"
\*   r"(?:show|list)\s*alerts?"
problem_patterns ==
  << << Alt(<<<<Lit(<<"s","h","o","w">>)>>, <<Lit(<<"l","i","s","t">>)>>, <<Lit(<<"g","e","t">>)>>, <<Lit(<<"w","h","a","t"," ","a","r","e">>)>>, <<Lit(<<"a","n","y">>)>>>>),
        Rep(Space, 0),
        Opt(<<Lit(<<"t","h","e">>), Rep(Space, 0)>>),
        Opt(<<Lit(<<"o","p","e","n">>), Rep(Space, 0)>>),
        Lit(<<"p","r","o","b","l","e","m">>),
        Opt(<<Lit(<<"s">>)>>) >>,
     << Lit(<<"w","h","a","t">>),
        Alt(<<<<Lit(<<"'","s">>)>>, <<Lit(<<" ","i","s">>)>>>>),
        Lit(<<" ","w","r","o","n","g">>) >>,
     << Lit(<<"a","n","y">>),
        Rep(Space, 0),
        Opt(<<Lit(<<"o","p","e","n">>), Rep(Space, 0)>>),
        Lit(<<"i","s","s","u","e">>),
        Opt(<<Lit(<<"s">>)>>) >>,
     << Lit(<<"c","u","r","r","e","n","t">>),
        Rep(Space, 0),
        Alt(<<<<Lit(<<"p","r","o","b","l","e","m">>), Opt(<<Lit(<<"s">>)>>)>>, <<Lit(<<"i","s","s","u","e">>), Opt(<<Lit(<<"s">>)>>)>>, <<Lit(<<"a","l","e","r","t">>), Opt(<<Lit(<<"s">>)>>)>>>>) >>,
     << Alt(<<<<Lit(<<"s","h","o","w">>)>>, <<Lit(<<"l","i","s","t">>)>>>>),
        Rep(Space, 0),
        Lit(<<"a","l","e","r","t">>),
        Opt(<<Lit(<<"s">>)>>) >> >>

\* agent_executor.py:67   r"(?:last|past)\s*(\d+)\s*(h|hour|d|day|w|week)"
time_pattern ==
  << Alt(<<<<Lit(<<"l","a","s","t">>)>>, <<Lit(<<"p","a","s","t">>)>>>>),
     Rep(Space, 0),
     Grp(1, <<Rep(DecimalDigit, 1)>>),
     Rep(Space, 0),
     Grp(2, <<Alt(<<<<Lit(<<"h">>)>>, <<Lit(<<"h","o","u","r">>)>>, <<Lit(<<"d">>)>>, <<Lit(<<"d","a","y">>)>>, <<Lit(<<"w">>)>>, <<Lit(<<"w","e","e","k">>)>>>>)>>) >>

\* agent_executor.py:81-85
\*   r"(?:analyze|investigate|root\s*cause|details?\s*(?:for|of|about)?|explain)\s*(?:problem\s*)?[\"']?(P-\d+)[\"']?"
\*   r"(?:what(?:'s| is)\s*(?:causing|wrong\s*with))\s*(?:problem\s*)?[\"']?(P-\d+)[\"']?"
\*   r"[\"']?(P-\d+)[\"']?\s*(?:analysis|details?|root\s*cause)"
analyze_patterns ==
  << << Alt(<<<<Lit(<<"a","n","a","l","y","z","e">>)>>, <<Lit(<<"i","n","v","e","s","t","i","g","a","t","e">>)>>, <<Lit(<<"r","o","o","t">>), Rep(Space, 0), Lit(<<"c","a","u","s","e">>)>>, <<Lit(<<"d","e","t","a","i","l">>), Opt(<<Lit(<<"s">>)>>), Rep(Space, 0), Opt(<<Alt(<<<<Lit(<<"f","o","r">>)>>, <<Lit(<<"o","f">>)>>, <<Lit(<<"a","b","o","u","t">>)>>>>)>>)>>, <<Lit(<<"e","x","p","l","a","i","n">>)>>>>),
        Rep(Space, 0),
        Opt(<<Lit(<<"p","r","o","b","l","e","m">>), Rep(Space, 0)>>),
        Opt(<<In(Quote)>>),
        Grp(1, <<Lit(<<"P","-">>), Rep(DecimalDigit, 1)>>),
        Opt(<<In(Quote)>>) >>,
     << Lit(<<"w","h","a","t">>), Alt(<<<<Lit(<<"'","s">>)>>, <<Lit(<<" ","i","s">>)>>>>), Rep(Space, 0), Alt(<<<<Lit(<<"c","a","u","s","i","n","g">>)>>, <<Lit(<<"w","r","o","n","g">>), Rep(Space, 0), Lit(<<"w","i","t","h">>)>>>>),
        Rep(Space, 0),
        Opt(<<Lit(<<"p","r","o","b","l","e","m">>), Rep(Space, 0)>>),
        Opt(<<In(Quote)>>),
        Grp(1, <<Lit(<<"P","-">>), Rep(DecimalDigit, 1)>>),
        Opt(<<In(Quote)>>) >>,
     << Opt(<<In(Quote)>>),
        Grp(1, <<Lit(<<"P","-">>), Rep(DecimalDigit, 1)>>),
        Opt(<<In(Quote)>>),
        Rep(Space, 0),
        Alt(<<<<Lit(<<"a","n","a","l","y","s","i","s">>)>>, <<Lit(<<"d","e","t","a","i","l">>), Opt(<<Lit(<<"s">>)>>)>>, <<Lit(<<"r","o","o","t">>), Rep(Space, 0), Lit(<<"c","a","u","s","e">>)>>>>) >> >>

\* agent_executor.py:91,148   r"(P-\d+)"
problem_id_pattern ==
  << Grp(1, <<Lit(<<"P","-">>), Rep(DecimalDigit, 1)>>) >>

\* agent_executor.py:96   r"^P-\d+$"
bare_id_pattern ==
  << Bol,
     Lit(<<"P","-">>),
     Rep(DecimalDigit, 1),
     Eol >>

\* agent_executor.py:103-107
\*   r"(?:topology|dependencies|dependency|architecture|map)\s*(?:for|of)?\s*[\"']?([a-zA-Z0-9_\-\.]+)[\"']?"
\*   r"(?:what\s*(?:does|services?))\s*[\"']?([a-zA-Z0-9_\-\.]+)[\"']?\s*(?:call|depend|connect)"
\*   r"[\"']?([a-zA-Z0-9_\-\.]+)[\"']?\s*(?:topology|dependencies|architecture)"
topology_patterns ==
  << << Alt(<<<<Lit(<<"t","o","p","o","l","o","g","y">>)>>, <<Lit(<<"d","e","p","e","n","d","e","n","c","i","e","s">>)>>, <<Lit(<<"d","e","p","e","n","d","e","n","c","y">>)>>, <<Lit(<<"a","r","c","h","i","t","e","c","t","u","r","e">>)>>, <<Lit(<<"m","a","p">>)>>>>),
        Rep(Space, 0),
        Opt(<<Alt(<<<<Lit(<<"f","o","r">>)>>, <<Lit(<<"o","f">>)>>>>)>>),
        Rep(Space, 0),
        Opt(<<In(Quote)>>),
        Grp(1, <<Rep(NameChar, 1)>>),
        Opt(<<In(Quote)>>) >>,
     << Lit(<<"w","h","a","t">>), Rep(Space, 0), Alt(<<<<Lit(<<"d","o","e","s">>)>>, <<Lit(<<"s","e","r","v","i","c","e">>), Opt(<<Lit(<<"s">>)>>)>>>>),
        Rep(Space, 0),
        Opt(<<In(Quote)>>),
        Grp(1, <<Rep(NameChar, 1)>>),
        Opt(<<In(Quote)>>),
        Rep(Space, 0),
        Alt(<<<<Lit(<<"c","a","l","l">>)>>, <<Lit(<<"d","e","p","e","n","d">>)>>, <<Lit(<<"c","o","n","n","e","c","t">>)>>>>) >>,
     << Opt(<<In(Quote)>>),
        Grp(1, <<Rep(NameChar, 1)>>),
        Opt(<<In(Quote)>>),
        Rep(Space, 0),
        Alt(<<<<Lit(<<"t","o","p","o","l","o","g","y">>)>>, <<Lit(<<"d","e","p","e","n","d","e","n","c","i","e","s">>)>>, <<Lit(<<"a","r","c","h","i","t","e","c","t","u","r","e">>)>>>>) >> >>

\* agent_executor.py:123-127
\*   r"(?:health|status|metrics?|check)\s*(?:for|of)?\s*[\"']?((?:HOST|SERVICE|PROCESS|APPLICATION)-[A-Z0-9]+)[\"']?"
\*   r"[\"']?((?:HOST|SERVICE|PROCESS|APPLICATION)-[A-Z0-9]+)[\"']?\s*(?:health|status|metrics?)"
\*   r"how\s*is\s*[\"']?((?:HOST|SERVICE|PROCESS|APPLICATION)-[A-Z0-9]+)[\"']?"
health_patterns ==
  << << Alt(<<<<Lit(<<"h","e","a","l","t","h">>)>>, <<Lit(<<"s","t","a","t","u","s">>)>>, <<Lit(<<"m","e","t","r","i","c">>), Opt(<<Lit(<<"s">>)>>)>>, <<Lit(<<"c","h","e","c","k">>)>>>>),
        Rep(Space, 0),
        Opt(<<Alt(<<<<Lit(<<"f","o","r">>)>>, <<Lit(<<"o","f">>)>>>>)>>),
        Rep(Space, 0),
        Opt(<<In(Quote)>>),
        Grp(1, <<Alt(<<<<Lit(<<"H","O","S","T">>)>>, <<Lit(<<"S","E","R","V","I","C","E">>)>>, <<Lit(<<"P","R","O","C","E","S","S">>)>>, <<Lit(<<"A","P","P","L","I","C","A","T","I","O","N">>)>>>>), Lit(<<"-">>), Rep(UpperAlnum, 1)>>),
        Opt(<<In(Quote)>>) >>,
     << Opt(<<In(Quote)>>),
        Grp(1, <<Alt(<<<<Lit(<<"H","O","S","T">>)>>, <<Lit(<<"S","E","R","V","I","C","E">>)>>, <<Lit(<<"P","R","O","C","E","S","S">>)>>, <<Lit(<<"A","P","P","L","I","C","A","T","I","O","N">>)>>>>), Lit(<<"-">>), Rep(UpperAlnum, 1)>>),
        Opt(<<In(Quote)>>),
        Rep(Space, 0),
        Alt(<<<<Lit(<<"h","e","a","l","t","h">>)>>, <<Lit(<<"s","t","a","t","u","s">>)>>, <<Lit(<<"m","e","t","r","i","c">>), Opt(<<Lit(<<"s">>)>>)>>>>) >>,
     << Lit(<<"h","o","w">>),
        Rep(Space, 0),
        Lit(<<"i","s">>),
        Rep(Space, 0),
        Opt(<<In(Quote)>>),
        Grp(1, <<Alt(<<<<Lit(<<"H","O","S","T">>)>>, <<Lit(<<"S","E","R","V","I","C","E">>)>>, <<Lit(<<"P","R","O","C","E","S","S">>)>>, <<Lit(<<"A","P","P","L","I","C","A","T","I","O","N">>)>>>>), Lit(<<"-">>), Rep(UpperAlnum, 1)>>),
        Opt(<<In(Quote)>>) >> >>

\* agent_executor.py:138-142
\*   r"(?:create|generate|make)\s*(?:servicenow\s*)?incident\s*(?:for|from)?\s*[\"']?(P-\d+)[\"']?"
\*   r"(?:servicenow|snow)\s*(?:summary|incident)\s*(?:for)?\s*[\"']?(P-\d+)[\"']?"
\*   r"[\"']?(P-\d+)[\"']?\s*(?:servicenow|snow|incident)"
incident_patterns ==
  << << Alt(<<<<Lit(<<"c","r","e","a","t","e">>)>>, <<Lit(<<"g","e","n","e","r","a","t","e">>)>>, <<Lit(<<"m","a","k","e">>)>>>>),
        Rep(Space, 0),
        Opt(<<Lit(<<"s","e","r","v","i","c","e","n","o","w">>), Rep(Space, 0)>>),
        Lit(<<"i","n","c","i","d","e","n","t">>),
        Rep(Space, 0),
        Opt(<<Alt(<<<<Lit(<<"f","o","r">>)>>, <<Lit(<<"f","r","o","m">>)>>>>)>>),
        Rep(Space, 0),
        Opt(<<In(Quote)>>),
        Grp(1, <<Lit(<<"P","-">>), Rep(DecimalDigit, 1)>>),
        Opt(<<In(Quote)>>) >>,
     << Alt(<<<<Lit(<<"s","e","r","v","i","c","e","n","o","w">>)>>, <<Lit(<<"s","n","o","w">>)>>>>),
        Rep(Space, 0),
        Alt(<<<<Lit(<<"s","u","m","m","a","r","y">>)>>, <<Lit(<<"i","n","c","i","d","e","n","t">>)>>>>),
        Rep(Space, 0),
        Opt(<<Lit(<<"f","o","r">>)>>),
        Rep(Space, 0),
        Opt(<<In(Quote)>>),
        Grp(1, <<Lit(<<"P","-">>), Rep(DecimalDigit, 1)>>),
        Opt(<<In(Quote)>>) >>,
     << Opt(<<In(Quote)>>),
        Grp(1, <<Lit(<<"P","-">>), Rep(DecimalDigit, 1)>>),
        Opt(<<In(Quote)>>),
        Rep(Space, 0),
        Alt(<<<<Lit(<<"s","e","r","v","i","c","e","n","o","w">>)>>, <<Lit(<<"s","n","o","w">>)>>, <<Lit(<<"i","n","c","i","d","e","n","t">>)>>>>) >> >>
\* ------------------------------------------------------------------------
\* DynatraceAgentExecutor._parse_intent
\* ------------------------------------------------------------------------
\* any(re.search(p, s) for p in patterns)
AnyMatch(patterns, s, ic) ==
  \E k \in 1..Len(patterns) : re_search(patterns[k], s, ic).ok

\* the match object of the first pattern of the list, from index k on, that matches
RECURSIVE FirstMatchFrom(_, _, _, _)
FirstMatchFrom(patterns, k, s, ic) ==
  IF k > Len(patterns) THEN NoMatch
  ELSE LET m == re_search(patterns[k], s, ic)
       IN IF m.ok THEN m ELSE FirstMatchFrom(patterns, k + 1, s, ic)

FirstMatch(patterns, s, ic) == FirstMatchFrom(patterns, 1, s, ic)

\* lines 66-73 with the unit left out of the token
time_range_number_only(query_lower) ==
  LET time_match == re_search(time_pattern, query_lower, FALSE)
  IN IF time_match.ok
     THEN group(query_lower, time_match, 1)
     ELSE <<"2", "4", "h">>

\* lines 66-73
time_range(query_lower) ==
  LET time_match == re_search(time_pattern, query_lower, FALSE)
  IN IF time_match.ok
     THEN group(query_lower, time_match, 1) \o <<group(query_lower, time_match, 2)[1]>>
     ELSE <<"2", "4", "h">>

\* lines 91-93 and 148-150 without .upper()
problem_id_as_typed(q) ==
  group(q, re_search(problem_id_pattern, q, TRUE), 1)

\* lines 91-93 and 148-150: the first P-<digits> of the original query, upper-cased
problem_id(q) ==
  upper(group(q, re_search(problem_id_pattern, q, TRUE), 1))

\* lines 109-117
service_name(q, query_lower) ==
  LET match == FirstMatch(topology_patterns, query_lower, FALSE)
      name == group(query_lower, match, 1)
      orig_match == re_search(<<Opt(<<In(Quote)>>), Grp(1, <<Lit(name)>>), Opt(<<In(Quote)>>)>>,
                              q, TRUE)
  IN IF orig_match.ok THEN group(q, orig_match, 1) ELSE name

\* lines 129-132
entity_id(q) ==
  upper(group(q, FirstMatch(health_patterns, q, TRUE), 1))

\* line 75
ProblemsIntent(query_lower) ==
  [skill |-> "get_problems", params |-> [time_range |-> time_range(query_lower)]]

\* lines 93 and 150
ProblemIdIntent(tag, q) == [skill |-> tag, params |-> [problem_id |-> problem_id(q)]]

\* line 97 without .upper()
BareIdIntentAsTyped(q) ==
  [skill |-> "analyze_problem", params |-> [problem_id |-> strip(q)]]

\* line 97
BareIdIntent(q) == [skill |-> "analyze_problem", params |-> [problem_id |-> upper(strip(q))]]

\* lines 116-117
TopologyIntent(q, query_lower) ==
  [skill |-> "get_topology", params |-> [service_name |-> service_name(q, query_lower)]]

\* line 132
HealthIntent(q) == [skill |-> "get_health", params |-> [entity_id |-> entity_id(q)]]

\* line 155 with a tag the dispatcher does not know
QueryIntentRenamed(q) == [skill |-> "nl_query", params |-> [question |-> q]]

\* line 155 handing on the normalised copy of the text
QueryIntentNormalised(q) == [skill |-> "query", params |-> [question |-> strip(lower(q))]]

\* line 155
QueryIntent(q) == [skill |-> "query", params |-> [question |-> q]]

\* lines 43-155 with the analysis rules tried before the listing rules
ParseIntentAnalysisFirst(q) ==
  LET query_lower == strip(lower(q))
  IN IF /\ AnyMatch(analyze_patterns, query_lower, TRUE)
        /\ re_search(problem_id_pattern, q, TRUE).ok
     THEN ProblemIdIntent("analyze_problem", q)
     ELSE IF re_match(bare_id_pattern, strip(q), TRUE).ok
     THEN BareIdIntent(q)
     ELSE IF AnyMatch(problem_patterns, query_lower, FALSE)
     THEN ProblemsIntent(query_lower)
     ELSE IF AnyMatch(topology_patterns, query_lower, FALSE)
     THEN TopologyIntent(q, query_lower)
     ELSE IF AnyMatch(health_patterns, q, TRUE)
     THEN HealthIntent(q)
     ELSE IF /\ AnyMatch(incident_patterns, query_lower, TRUE)
             /\ re_search(problem_id_pattern, q, TRUE).ok
     THEN ProblemIdIntent("create_incident", q)
     ELSE QueryIntent(q)

\* lines 43-155.  A loop "for pattern in patterns: if re.search(..): return .."
\* returns exactly when some pattern of the list matches; in the analysis and
\* incident loops the return also needs the id to be found in the original
\* query (lines 92 and 149), else the loop goes on and control falls through.
ParseIntent(q) ==
  LET query_lower == strip(lower(q))
  IN IF AnyMatch(problem_patterns, query_lower, FALSE)
     THEN ProblemsIntent(query_lower)
     ELSE IF /\ AnyMatch(analyze_patterns, query_lower, TRUE)
             /\ re_search(problem_id_pattern, q, TRUE).ok
     THEN ProblemIdIntent("analyze_problem", q)
     ELSE IF re_match(bare_id_pattern, strip(q), TRUE).ok
     THEN BareIdIntent(q)
     ELSE IF AnyMatch(topology_patterns, query_lower, FALSE)
     THEN TopologyIntent(q, query_lower)
     ELSE IF AnyMatch(health_patterns, q, TRUE)
     THEN HealthIntent(q)
     ELSE IF /\ AnyMatch(incident_patterns, query_lower, TRUE)
             /\ re_search(problem_id_pattern, q, TRUE).ok
     THEN ProblemIdIntent("create_incident", q)
     ELSE QueryIntent(q)

\* ------------------------------------------------------------------------
\* DynatraceAgentExecutor.execute: the dispatcher
\* ------------------------------------------------------------------------
\* params.get(key, default)
Get(p, key, default) == IF key \in DOMAIN p THEN p[key] ELSE default

DispatchIncidentAnalyzes(s, p, q) ==
  IF s = "get_problems"
  THEN [op |-> "get_open_problems", arg |-> Get(p, "time_range", <<"2","4","h">>), branch |-> "if"]
  ELSE IF s = "analyze_problem"
  THEN [op |-> "analyze_problem", arg |-> p["problem_id"], branch |-> "elif"]
  ELSE IF s = "get_topology"
  THEN [op |-> "get_service_topology", arg |-> p["service_name"], branch |-> "elif"]
  ELSE IF s = "get_health"
  THEN [op |-> "get_entity_health", arg |-> p["entity_id"], branch |-> "elif"]
  ELSE IF s = "create_incident"
  THEN [op |-> "analyze_problem", arg |-> p["problem_id"], branch |-> "elif"]
  ELSE [op |-> "query", arg |-> Get(p, "question", q), branch |-> "else"]

\* lines 180-209: the agent operation awaited for a skill, and its argument
Dispatch(s, p, q) ==
  IF s = "get_problems"
  THEN [op |-> "get_open_problems", arg |-> Get(p, "time_range", <<"2","4","h">>), branch |-> "if"]
  ELSE IF s = "analyze_problem"
  THEN [op |-> "analyze_problem", arg |-> p["problem_id"], branch |-> "elif"]
  ELSE IF s = "get_topology"
  THEN [op |-> "get_service_topology", arg |-> p["service_name"], branch |-> "elif"]
  ELSE IF s = "get_health"
  THEN [op |-> "get_entity_health", arg |-> p["entity_id"], branch |-> "elif"]
  ELSE IF s = "create_incident"
  THEN [op |-> "create_incident_summary", arg |-> p["problem_id"], branch |-> "elif"]
  ELSE [op |-> "query", arg |-> Get(p, "question", q), branch |-> "else"]

\* ------------------------------------------------------------------------
\* DynatraceAgent: the skills behind the agent operations
\* ------------------------------------------------------------------------
\* what a call to Dynatrace or to the AI service can fail with
Errors == {"ConnectError", "HTTPStatusError"}

\* str(e)
str(e) == IF e = "ConnectError" THEN <<"c","o","n","n","e","c","t","i","o","n"," ","r","e","f","u","s","e","d">> ELSE <<"5","0","3"," ","S","e","r","v","i","c","e"," ","U","n","a","v","a","i","l","a","b","l","e">>

\* the cross mark that opens the error text of execute (agent_executor.py:212),
\* as one element
ErrorMarker == "U+274C"

\* the three characters that open the error texts of the skills in
\* dynatrace_agent.py (lines 103, 242, 278, 321, 387, 506, 578): the UTF-8
\* bytes of the cross mark read as Mac Roman
SkillErrorMark == <<"U+201A", "U+00F9", "U+00E5">>

\* a call a skill awaits: the client method or the AI service, and the
\* argument that depends on the request
Await(name, arg) == [do |-> "call", name |-> name, arg |-> arg, text |-> <<>>]

Return(text) == [do |-> "return", name |-> "none", arg |-> <<>>, text |-> text]

\* the answers a call can get: the variants of the data that the skills
\* branch on, or a failure
Outcomes(name) ==
  Errors \cup
    (IF name = "get_problems" THEN {"problems", "no_problems"}
     ELSE IF name = "get_problem_details" THEN {"root_cause_entity", "root_cause_entity_without_id", "no_root_cause_entity"}
     ELSE IF name = "get_entities" THEN {"entities", "no_entities"}
     ELSE IF name = "get_entity" THEN {"HOST", "SERVICE", "PROCESS_GROUP"}
     ELSE {"ok"})

\* the log of one request: the calls issued so far and their answers
Failed(log, k) == k <= Len(log) /\ log[k].out \in Errors

\* except Exception as e: return f"<mark> <what>: {str(e)}"
SkillError(what, e) == SkillErrorMark \o <<" ">> \o what \o <<":"," ">> \o str(e)

\* dynatrace_agent.py:45-54: the text _ai_analyze returns for the answer of
\* the AI service
ai_analyze(out) ==
  IF out \in Errors THEN <<"A","I"," ","a","n","a","l","y","s","i","s"," ","u","n","a","v","a","i","l","a","b","l","e",":"," ">> \o str(out) ELSE <<"a","n","a","l","y","s","i","s">>

\* dynatrace_agent.py:60-103
get_open_problems(range, log) ==
  IF Len(log) = 0 THEN Await("get_problems", <<"n","o","w","-">> \o range)
  ELSE IF Failed(log, 1) THEN Return(SkillError(<<"E","r","r","o","r"," ","f","e","t","c","h","i","n","g"," ","p","r","o","b","l","e","m","s">>, log[1].out))
  ELSE IF log[1].out = "no_problems"
  THEN Return(<<"*","*","N","o"," ","o","p","e","n"," ","p","r","o","b","l","e","m","s","*","*"," ","d","e","t","e","c","t","e","d"," ","i","n"," ","t","h","e"," ","l","a","s","t"," ">> \o range)
  ELSE Return(<<"O","p","e","n"," ","P","r","o","b","l","e","m","(","s",")","*","*"," ","d","e","t","e","c","t","e","d"," ","i","n"," ","t","h","e"," ","l","a","s","t"," ">> \o range)

\* lines 109-242 with the deployment lookup inside the outer try only
analyze_problem_needs_deployments(id, log) ==
  IF Len(log) = 0 THEN Await("get_problem_details", id)
  ELSE IF Failed(log, 1)
  THEN Return(SkillError(<<"E","r","r","o","r"," ","a","n","a","l","y","z","i","n","g"," ","p","r","o","b","l","e","m"," ">> \o id, log[1].out))
  ELSE IF Failed(log, 2) /\ log[2].name = "get_recent_deployments"
  THEN Return(SkillError(<<"E","r","r","o","r"," ","a","n","a","l","y","z","i","n","g"," ","p","r","o","b","l","e","m"," ">> \o id, log[2].out))
  ELSE IF log[1].out = "root_cause_entity" /\ Len(log) = 1
  THEN Await("get_recent_deployments", <<"n","o","w","-","7","d">>)
  ELSE IF log[Len(log)].name # "generate_content"
  THEN Await("generate_content", <<>>)
  ELSE Return(<<"#"," ","R","o","o","t"," ","C","a","u","s","e"," ","A","n","a","l","y","s","i","s"," ","*","*","P","r","o","b","l","e","m"," ","I","D",":","*","*"," ">> \o id
              \o <<" ","#","#"," ","A","I","-","P","o","w","e","r","e","d"," ","A","n","a","l","y","s","i","s"," ">> \o ai_analyze(log[Len(log)].out))

\* dynatrace_agent.py:109-242; the deployments are looked up only for a
\* root cause entity and their failure is passed over (lines 148-158)
analyze_problem(id, log) ==
  IF Len(log) = 0 THEN Await("get_problem_details", id)
  ELSE IF Failed(log, 1)
  THEN Return(SkillError(<<"E","r","r","o","r"," ","a","n","a","l","y","z","i","n","g"," ","p","r","o","b","l","e","m"," ">> \o id, log[1].out))
  ELSE IF log[1].out = "root_cause_entity" /\ Len(log) = 1
  THEN Await("get_recent_deployments", <<"n","o","w","-","7","d">>)
  ELSE IF log[Len(log)].name # "generate_content"
  THEN Await("generate_content", <<>>)
  ELSE Return(<<"#"," ","R","o","o","t"," ","C","a","u","s","e"," ","A","n","a","l","y","s","i","s"," ","*","*","P","r","o","b","l","e","m"," ","I","D",":","*","*"," ">> \o id
              \o <<" ","#","#"," ","A","I","-","P","o","w","e","r","e","d"," ","A","n","a","l","y","s","i","s"," ">> \o ai_analyze(log[Len(log)].out))

\* str.startswith
startswith(s, p) == Len(s) >= Len(p) /\ SubSeq(s, 1, Len(p)) = p

\* dynatrace_agent.py:248-321
get_service_topology(name, log) ==
  IF Len(log) = 0
  THEN Await("get_entities",
             IF startswith(name, <<"S","E","R","V","I","C","E","-">>)
             THEN <<"e","n","t","i","t","y","I","d","(","\"">> \o name \o <<"\"",")">>
             ELSE <<"t","y","p","e","(","\"","S","E","R","V","I","C","E","\"",")",",","e","n","t","i","t","y","N","a","m","e",".","c","o","n","t","a","i","n","s","(","\"">> \o name \o <<"\"",")">>)
  ELSE IF Failed(log, 1) THEN Return(SkillError(<<"E","r","r","o","r"," ","g","e","t","t","i","n","g"," ","t","o","p","o","l","o","g","y">>, log[1].out))
  ELSE IF log[1].out = "no_entities"
  THEN Return(SkillErrorMark \o <<" ","N","o"," ","s","e","r","v","i","c","e"," ","f","o","u","n","d"," ","m","a","t","c","h","i","n","g"," ","'">> \o name \o <<"'">>)
  ELSE Return(<<"#"," ","S","e","r","v","i","c","e"," ","T","o","p","o","l","o","g","y">>)

\* dynatrace_agent.py:327-387
get_entity_health(id, log) ==
  IF Len(log) = 0 THEN Await("get_entity", id)
  ELSE IF Failed(log, Len(log))
  THEN Return(SkillError(<<"E","r","r","o","r"," ","g","e","t","t","i","n","g"," ","e","n","t","i","t","y"," ","h","e","a","l","t","h">>, log[Len(log)].out))
  ELSE IF Len(log) = 1 /\ log[1].out = "HOST" THEN Await("get_host_metrics", id)
  ELSE IF Len(log) = 1 /\ log[1].out = "SERVICE" THEN Await("get_service_metrics", id)
  ELSE IF log[Len(log)].name # "get_problems"
  THEN Await("get_problems", <<"e","n","t","i","t","y","I","d","(","\"">> \o id \o <<"\"",")">>)
  ELSE Return(<<"#"," ","E","n","t","i","t","y"," ","H","e","a","l","t","h"," ","*","*","I","D",":","*","*"," ">> \o id
              \o (IF log[Len(log)].out = "problems"
                  THEN <<" ","#","#"," ","O","p","e","n"," ","P","r","o","b","l","e","m","s">> ELSE <<" ","#","#"," ","N","o"," ","O","p","e","n"," ","P","r","o","b","l","e","m","s">>))

\* dynatrace_agent.py:393-506
create_incident_summary(id, log) ==
  IF Len(log) = 0 THEN Await("get_problem_details", id)
  ELSE IF Failed(log, 1)
  THEN Return(SkillError(<<"E","r","r","o","r"," ","c","r","e","a","t","i","n","g"," ","i","n","c","i","d","e","n","t"," ","s","u","m","m","a","r","y">>, log[1].out))
  ELSE IF Len(log) = 1 THEN Await("generate_content", <<>>)
  ELSE Return(<<"#"," ","S","e","r","v","i","c","e","N","o","w"," ","I","n","c","i","d","e","n","t"," ","S","u","m","m","a","r","y"," ","*","*","A","I"," ","S","u","m","m","a","r","y",":","*","*"," ">> \o ai_analyze(log[2].out))

\* word in question_lower
Contains(s, w) == \E k \in 0..(Len(s) - Len(w)) : SubSeq(s, k + 1, k + Len(w)) = w

\* lines 531-560 with the hosts fetched before the services
QueryPlanHostsFirst(question) ==
  (IF \E w \in {<<"p","r","o","b","l","e","m">>, <<"i","s","s","u","e">>, <<"a","l","e","r","t">>, <<"i","n","c","i","d","e","n","t">>} : Contains(lower(question), w)
   THEN <<Await("get_problems", <<"n","o","w","-","2","4","h">>)>> ELSE <<>>)
  \o (IF \E w \in {<<"h","o","s","t">>, <<"s","e","r","v","e","r">>, <<"i","n","f","r","a","s","t","r","u","c","t","u","r","e">>} : Contains(lower(question), w)
      THEN <<Await("get_entities", <<"t","y","p","e","(","\"","H","O","S","T","\"",")">>)>> ELSE <<>>)
  \o (IF \E w \in {<<"s","e","r","v","i","c","e">>, <<"a","p","p","l","i","c","a","t","i","o","n">>} : Contains(lower(question), w)
      THEN <<Await("get_entities", <<"t","y","p","e","(","\"","S","E","R","V","I","C","E","\"",")">>)>> ELSE <<>>)
  \o <<Await("generate_content", <<>>)>>

\* dynatrace_agent.py:531-560: the data the question asks for, in the
\* order it is fetched
QueryPlan(question) ==
  (IF \E w \in {<<"p","r","o","b","l","e","m">>, <<"i","s","s","u","e">>, <<"a","l","e","r","t">>, <<"i","n","c","i","d","e","n","t">>} : Contains(lower(question), w)
   THEN <<Await("get_problems", <<"n","o","w","-","2","4","h">>)>> ELSE <<>>)
  \o (IF \E w \in {<<"s","e","r","v","i","c","e">>, <<"a","p","p","l","i","c","a","t","i","o","n">>} : Contains(lower(question), w)
      THEN <<Await("get_entities", <<"t","y","p","e","(","\"","S","E","R","V","I","C","E","\"",")">>)>> ELSE <<>>)
  \o (IF \E w \in {<<"h","o","s","t">>, <<"s","e","r","v","e","r">>, <<"i","n","f","r","a","s","t","r","u","c","t","u","r","e">>} : Contains(lower(question), w)
      THEN <<Await("get_entities", <<"t","y","p","e","(","\"","H","O","S","T","\"",")">>)>> ELSE <<>>)
  \o <<Await("generate_content", <<>>)>>

\* dynatrace_agent.py:512-578
query_skill(question, log) ==
  IF Len(log) > 0 /\ Failed(log, Len(log)) /\ log[Len(log)].name # "generate_content"
  THEN Return(SkillError(<<"E","r","r","o","r"," ","p","r","o","c","e","s","s","i","n","g"," ","q","u","e","r","y">>, log[Len(log)].out))
  ELSE IF Len(log) < Len(QueryPlan(question)) THEN QueryPlan(question)[Len(log) + 1]
  ELSE Return(ai_analyze(log[Len(log)].out))

\* agent_executor.py:227-272, the text up to the title
HelpMessage == <<"#"," ","D","y","n","a","t","r","a","c","e"," ","A","I"," ","A","g","e","n","t">>

AgentStepHelpForQuery(c, log) ==
  IF c.op = "get_open_problems" THEN get_open_problems(c.arg, log)
  ELSE IF c.op = "analyze_problem" THEN analyze_problem(c.arg, log)
  ELSE IF c.op = "get_service_topology" THEN get_service_topology(c.arg, log)
  ELSE IF c.op = "get_entity_health" THEN get_entity_health(c.arg, log)
  ELSE IF c.op = "create_incident_summary" THEN create_incident_summary(c.arg, log)
  ELSE Return(HelpMessage)

\* the next thing the awaited agent operation does, given the answers it
\* has had so far
AgentStep(c, log) ==
  IF c.op = "get_open_problems" THEN get_open_problems(c.arg, log)
  ELSE IF c.op = "analyze_problem" THEN analyze_problem(c.arg, log)
  ELSE IF c.op = "get_service_topology" THEN get_service_topology(c.arg, log)
  ELSE IF c.op = "get_entity_health" THEN get_entity_health(c.arg, log)
  ELSE IF c.op = "create_incident_summary" THEN create_incident_summary(c.arg, log)
  ELSE query_skill(c.arg, log)

\* ------------------------------------------------------------------------
\* Requests: the texts a client may send
\* ------------------------------------------------------------------------
\* longest problem number, in digits
MaxDigits == 2

\* longest service name, in parts
MaxNameParts == 2

\* longest entity id, in parts
MaxIdParts == 2

\* longest free text, in fragments
MaxFragments == 2

RECURSIVE Flatten(_)
Flatten(ss) == IF Len(ss) = 0 THEN <<>> ELSE Head(ss) \o Flatten(Tail(ss))

\* the texts made of 1..n parts
PartStrings(Parts, n) == {Flatten(ps) : ps \in UNION {[1..k -> Parts] : k \in 1..n}}

RECURSIVE Join(_)
Join(ss) == IF Len(ss) = 1 THEN ss[1] ELSE Head(ss) \o <<" ">> \o Join(Tail(ss))

CaseVariants(s) == {s, lower(s), upper(s)}

DigitStrings == PartStrings({<<"1">>, <<"7">>}, MaxDigits)

ProblemIds == {<<"P", "-">> \o d : d \in DigitStrings}

\* a problem id alone
\* an id typed with a decimal digit from outside ASCII
UnicodeIds == {<<"P", "-", "U+0663">>, <<"p", "-", "U+0663">>}

BareIds == ProblemIds \cup {lower(i) : i \in ProblemIds} \cup UnicodeIds

\* agent card (main.py:30) and help message (agent_executor.py:238)
ListIssuesExample == <<"L","i","s","t"," ","i","s","s","u","e","s"," ","f","r","o","m"," ","t","h","e"," ","l","a","s","t"," ","7"," ","d","a","y","s">>

ListIssuesInputs == CaseVariants(ListIssuesExample)

\* help message, agent_executor.py:237-239, and the comment on line 54
ListingPhrases ==
  {<<"S","h","o","w"," ","o","p","e","n"," ","p","r","o","b","l","e","m","s">>,
   <<"A","n","y"," ","c","u","r","r","e","n","t"," ","a","l","e","r","t","s","?">>}

UnitWords ==
  {<<"h">>,
   <<"h","o","u","r">>,
   <<"h","o","u","r","s">>,
   <<"d">>,
   <<"d","a","y">>,
   <<"d","a","y","s">>,
   <<"w">>,
   <<"w","e","e","k">>,
   <<"w","e","e","k","s">>}

OtherWords ==
  {<<"m","i","n","u","t","e","s">>,
   <<"d","e","p","l","o","y","m","e","n","t","s">>}

TimeExpr(l, n, sp, u) == l \o <<" ">> \o n \o sp \o u

TimeExprs ==
  {TimeExpr(l, n, sp, u) : l \in {<<"l","a","s","t">>, <<"p","a","s","t">>}, n \in DigitStrings,
                           sp \in {<<>>, <<" ">>}, u \in UnitWords \cup OtherWords}

ListingInputs ==
  ListingPhrases \cup {p \o <<" ">> \o e : p \in ListingPhrases, e \in TimeExprs}

\* help message, agent_executor.py:243-245
AnalyzePhrases ==
  {<<"A","n","a","l","y","z","e"," ">>,
   <<"R","o","o","t"," ","c","a","u","s","e"," ","f","o","r"," ">>,
   <<"I","n","v","e","s","t","i","g","a","t","e"," ","p","r","o","b","l","e","m"," ">>}

AnalyzeInputs == {p \o i : p \in AnalyzePhrases, i \in ProblemIds}

\* help message, agent_executor.py:249
TopologyFor == <<"T","o","p","o","l","o","g","y"," ","f","o","r"," ">>

NameParts ==
  {<<"t">>,
   <<"O">>,
   <<"r","d","e","r">>,
   <<"-">>,
   <<"1">>}

ServiceNames == PartStrings(NameParts, MaxNameParts)

TopologyInputs == {TopologyFor \o n : n \in ServiceNames}

\* help message, agent_executor.py:255-257; pattern on line 124
HealthPhrases ==
  {<<"H","e","a","l","t","h"," ","o","f"," ">>,
   <<"S","t","a","t","u","s"," ","o","f"," ">>,
   <<"M","e","t","r","i","c","s"," ","f","o","r"," ">>,
   <<"c","h","e","c","k"," ","f","o","r"," ">>}

EntityTypes ==
  {<<"H","O","S","T">>,
   <<"S","E","R","V","I","C","E">>,
   <<"P","R","O","C","E","S","S">>,
   <<"A","P","P","L","I","C","A","T","I","O","N">>}

IdParts ==
  {<<"1">>,
   <<"M","A","P">>}

EntityIdTails == PartStrings(IdParts, MaxIdParts)

\* TYPE-ID as documented, and typed in lower case
EntityIds ==
  LET ids == {t \o <<"-">> \o i : t \in EntityTypes, i \in EntityIdTails}
  IN ids \cup {lower(e) : e \in {<<"H","O","S","T","-">> \o i : i \in EntityIdTails}}

HealthInputs == {p \o e : p \in HealthPhrases, e \in EntityIds}

\* help message, agent_executor.py:261-262
IncidentPhrases ==
  {<<"C","r","e","a","t","e"," ","i","n","c","i","d","e","n","t"," ","f","o","r"," ">>,
   <<"S","e","r","v","i","c","e","N","o","w"," ","s","u","m","m","a","r","y"," ">>}

IncidentInputs ==
  UNION {CaseVariants(p \o i) : p \in IncidentPhrases, i \in ProblemIds}

Fragments ==
  {<<"s","h","o","w"," ","p","r","o","b","l","e","m","s">>,
   <<"P","-","1"," ","d","e","t","a","i","l","s">>,
   <<"a","n","a","l","y","z","e"," ","P","-","2">>,
   <<"i","n","c","i","d","e","n","t">>,
   <<"T","o","p","o","l","o","g","y"," ","o","f">>,
   <<"h","e","a","l","t","h">>,
   <<"H","O","S","T","-","1">>,
   <<"H","e","l","l","o">>,
   <<"m","a","k","e"," ","i","n","c","i","d","e","n","t"," ","f","r","o","m"," ","P","-","3">>}

FreeTexts == {Join(fs) : fs \in UNION {[1..k -> Fragments] : k \in 1..MaxFragments}}

PaddedTexts ==
  {<<" ">>} \cup {<<" ">> \o f : f \in Fragments} \cup {<<"\t">> \o f \o <<" ">> : f \in Fragments}

\* agent card, main.py:92-96, and help message, agent_executor.py:266-268
QueryExamples ==
  {<<"W","h","a","t"," ","s","e","r","v","i","c","e","s"," ","a","r","e"," ","a","f","f","e","c","t","e","d"," ","b","y"," ","c","u","r","r","e","n","t"," ","i","s","s","u","e","s","?">>,
   <<"W","h","a","t"," ","s","e","r","v","i","c","e","s"," ","a","r","e"," ","a","f","f","e","c","t","e","d"," ","b","y"," ","t","h","e"," ","c","u","r","r","e","n","t"," ","i","s","s","u","e","s","?">>,
   <<"A","r","e"," ","t","h","e","r","e"," ","a","n","y"," ","d","a","t","a","b","a","s","e","-","r","e","l","a","t","e","d"," ","p","r","o","b","l","e","m","s","?">>,
   <<"H","o","w"," ","m","a","n","y"," ","h","o","s","t","s"," ","a","r","e"," ","b","e","i","n","g"," ","m","o","n","i","t","o","r","e","d","?">>,
   <<"H","o","w"," ","m","a","n","y"," ","h","o","s","t","s"," ","a","r","e"," ","m","o","n","i","t","o","r","e","d","?">>}

\* questions that ask for several kinds of data
QuestionTexts ==
  {<<"W","h","i","c","h"," ","h","o","s","t","s"," ","a","n","d"," ","s","e","r","v","i","c","e","s"," ","h","a","d"," ","a","n"," ","i","n","c","i","d","e","n","t","?">>,
   <<"I","s"," ","t","h","e"," ","a","p","p","l","i","c","a","t","i","o","n"," ","s","e","r","v","e","r"," ","o","k","?">>}

\* texts that name two problems, one of them next to a keyword
TwoIdTexts ==
  {<<"P","-","1"," ","l","o","o","k","s"," ","f","i","n","e",","," ","a","n","a","l","y","z","e"," ","P","-","2">>,
   <<"P","-","1"," ","i","s"," ","s","o","l","v","e","d",","," ","c","r","e","a","t","e"," ","i","n","c","i","d","e","n","t"," ","f","o","r"," ","P","-","2">>}

Inputs ==
  {<<>>} \cup BareIds \cup ListIssuesInputs \cup ListingInputs \cup AnalyzeInputs
         \cup TopologyInputs \cup HealthInputs \cup IncidentInputs
         \cup FreeTexts \cup PaddedTexts \cup QueryExamples \cup TwoIdTexts
         \cup QuestionTexts

\* ------------------------------------------------------------------------
\* Request contexts: context.message and its parts
\* ------------------------------------------------------------------------
\* a part with a text attribute, and a part without one (a file or data part)
TextPart(t) == [has_text |-> TRUE, text |-> t]

FilePart == [has_text |-> FALSE, text |-> <<>>]

\* context.message is None
NoMessage == [present |-> FALSE, parts |-> <<>>]

Message(parts) == [present |-> TRUE, parts |-> parts]

\* messages that are not a single text part
OddMessages ==
  {NoMessage,
   Message(<<>>),
   Message(<<FilePart>>),
   Message(<<TextPart(<<>>)>>),
   Message(<<FilePart, TextPart(<<>>)>>),
   Message(<<FilePart, TextPart(<<"P","-","1">>)>>),
   Message(<<TextPart(<<>>), TextPart(<<"H","e","l","l","o">>)>>),
   Message(<<TextPart(<<"s","h","o","w"," ","p","r","o","b","l","e","m","s">>), TextPart(<<"P","-","1">>)>>)}

Messages == {Message(<<TextPart(q)>>) : q \in Inputs} \cup OddMessages

\* the requests of two clients served at the same time
ConcurrentMessages ==
  {Message(<<FilePart>>),
   Message(<<TextPart(<<"P","-","1">>)>>),
   Message(<<TextPart(<<"H","e","l","l","o">>)>>)}

\* lines 34-41
RECURSIVE FirstText(_)
FirstText(parts) ==
  IF parts = <<>> THEN <<>>
  ELSE IF Head(parts).has_text /\ Head(parts).text # <<>> THEN Head(parts).text
  ELSE FirstText(Tail(parts))

extract_query(m) == IF m.present /\ m.parts # <<>> THEN FirstText(m.parts) ELSE <<>>

\* the action tag as text, for f"... {skill} ..."
SkillName(s) ==
  IF s = "get_problems" THEN <<"g","e","t","_","p","r","o","b","l","e","m","s">>
  ELSE IF s = "analyze_problem" THEN <<"a","n","a","l","y","z","e","_","p","r","o","b","l","e","m">>
  ELSE IF s = "get_topology" THEN <<"g","e","t","_","t","o","p","o","l","o","g","y">>
  ELSE IF s = "get_health" THEN <<"g","e","t","_","h","e","a","l","t","h">>
  ELSE IF s = "create_incident" THEN <<"c","r","e","a","t","e","_","i","n","c","i","d","e","n","t">>
  ELSE IF s = "query" THEN <<"q","u","e","r","y">>
  ELSE <<"n","o","n","e">>

\* line 212
ExecuteError(s, e) == <<ErrorMarker>> \o <<" ","E","r","r","o","r"," ","e","x","e","c","u","t","i","n","g"," ">> \o SkillName(s) \o <<":"," ">> \o str(e)

\* the attributes set by the constructors: agent_executor.py:32,
\* dynatrace_agent.py:35-43, dynatrace_client.py:29-37
Constructed ==
  [agent |-> "DynatraceAgent", dynatrace |-> "DynatraceClient", genai_client |-> "genai.Client",
   model |-> "gemini-2.0-flash", base_url |-> "DYNATRACE_URL", api_token |-> "DYNATRACE_API_TOKEN",
   headers |-> "Api-Token"]

\* ------------------------------------------------------------------------
\* State
\* ------------------------------------------------------------------------
VARIABLES
  pc,       \* where execute stands: "idle", "called", "awaiting" (an agent operation), "done"
  message,  \* context.message of the request handed to execute
  query,    \* local query of execute
  skill,    \* local skill of execute, "none" before _parse_intent has run
  params,   \* local params of execute
  call,     \* the agent operation execute awaits
  calls,    \* the calls to Dynatrace and the AI service made for the request, with their answers
  raised,   \* the exception caught on line 211, "none" if there was none
  events,   \* the event queue of the request
  other,    \* a second call of execute in flight on the same executor
  fields,   \* the attributes of the executor, the agent and the client
  notices   \* the event queue handed to cancel for the request

locals == <<pc, message, query, skill, params, call, calls, raised, events>>

vars == <<pc, message, query, skill, params, call, calls, raised, events, other, fields, notices>>

NoParams == [k \in {} |-> <<>>]

NoCall == [op |-> "none", arg |-> <<>>, branch |-> "none"]

\* a call of execute that has not started
Idle ==
  [pc |-> "idle", message |-> NoMessage, query |-> <<>>, skill |-> "none", params |-> NoParams,
   call |-> NoCall, calls |-> <<>>, raised |-> "none", events |-> <<>>]

Init ==
  /\ pc = "idle"
  /\ message = NoMessage
  /\ query = <<>>
  /\ skill = "none"
  /\ params = NoParams
  /\ call = NoCall
  /\ calls = <<>>
  /\ raised = "none"
  /\ events = <<>>
  /\ other = Idle
  /\ fields = Constructed
  /\ notices = <<>>

\* lines 157-161: the server calls execute with the context of a request
Request(m) ==
  /\ pc = "idle"
  /\ message' = m
  /\ pc' = "called"
  /\ UNCHANGED <<query, skill, params, call, calls, raised, events, other, fields, notices>>

ExecuteEmptyClassifies ==
  /\ pc = "called"
  /\ extract_query(message) = <<>>
  /\ \E intent \in {ParseIntent(<<>>)} :
        /\ skill' = intent.skill
        /\ params' = intent.params
        /\ call' = Dispatch(intent.skill, intent.params, <<>>)
  /\ query' = <<>>
  /\ pc' = "awaiting"
  /\ UNCHANGED <<message, calls, raised, events, other, fields, notices>>

\* lines 168-174: nothing to classify, answer with the help message
ExecuteEmpty ==
  /\ pc = "called"
  /\ extract_query(message) = <<>>
  /\ query' = extract_query(message)
  /\ events' = Append(events, HelpMessage)
  /\ pc' = "done"
  /\ UNCHANGED <<message, skill, params, call, calls, raised, other, fields, notices>>

ExecutePrefetches ==
  /\ pc = "called"
  /\ extract_query(message) # <<>>
  /\ \E intent \in {ParseIntent(extract_query(message))} :
        /\ skill' = intent.skill
        /\ params' = intent.params
        /\ call' = Dispatch(intent.skill, intent.params, extract_query(message))
  /\ query' = extract_query(message)
  /\ pc' = "awaiting"
  /\ calls' = Append(calls, [name |-> "get_problems", arg |-> <<"n","o","w","-","2","4","h">>, out |-> "problems"])
  /\ UNCHANGED <<message, raised, events, other, fields, notices>>

\* lines 168-209: extract the text, classify it and call the agent operation
Execute ==
  /\ pc = "called"
  /\ extract_query(message) # <<>>
  /\ \E intent \in {ParseIntent(extract_query(message))} :
        /\ skill' = intent.skill
        /\ params' = intent.params
        /\ call' = Dispatch(intent.skill, intent.params, extract_query(message))
  /\ query' = extract_query(message)
  /\ pc' = "awaiting"
  /\ UNCHANGED <<message, calls, raised, events, other, fields, notices>>

\* the awaited skill makes its next call and gets the answer o
Downstream(o) ==
  /\ pc = "awaiting"
  /\ \E step \in {AgentStep(call, calls)} :
        /\ step.do = "call"
        /\ o \in Outcomes(step.name)
        /\ calls' = Append(calls, [name |-> step.name, arg |-> step.arg, out |-> o])
  /\ UNCHANGED <<pc, message, query, skill, params, call, raised, events, other, fields, notices>>

AgentReturnWithStatus ==
  /\ pc = "awaiting"
  /\ \E step \in {AgentStep(call, calls)} :
        /\ step.do = "return"
        /\ events' = events \o <<step.text, <<"T","a","s","k"," ","c","o","m","p","l","e","t","e","d",".">>>>
  /\ pc' = "done"
  /\ UNCHANGED <<message, query, skill, params, call, calls, raised, other, fields, notices>>

\* line 215 after a normal return of the awaited operation
AgentReturn ==
  /\ pc = "awaiting"
  /\ \E step \in {AgentStep(call, calls)} :
        /\ step.do = "return"
        /\ events' = Append(events, step.text)
  /\ pc' = "done"
  /\ UNCHANGED <<message, query, skill, params, call, calls, raised, other, fields, notices>>

AgentRaisePropagates(e) ==
  /\ pc = "awaiting"
  /\ raised' = e
  /\ pc' = "crashed"
  /\ UNCHANGED <<message, query, skill, params, call, calls, events, other, fields, notices>>

\* lines 211-215: an exception left the awaited operation.  The skills of
\* DynatraceAgent catch Exception themselves, so this is an exception
\* raised outside their try blocks or by another agent bound to self.agent.
AgentRaise(e) ==
  /\ pc = "awaiting"
  /\ raised' = e
  /\ events' = Append(events, ExecuteError(skill, e))
  /\ pc' = "done"
  /\ UNCHANGED <<message, query, skill, params, call, calls, other, fields, notices>>

\* execute has returned; the next request gets its own context and queue
NextRequest ==
  /\ pc = "done"
  /\ pc' = "idle"
  /\ message' = NoMessage
  /\ query' = <<>>
  /\ skill' = "none"
  /\ params' = NoParams
  /\ call' = NoCall
  /\ calls' = <<>>
  /\ raised' = "none"
  /\ events' = <<>>
  /\ notices' = <<>>
  /\ UNCHANGED <<other, fields>>

\* every answer a call can get
AllOutcomes == UNION {Outcomes(n) : n \in {"get_problems", "get_problem_details", "get_entities",
                                           "get_entity", "generate_content"}}

Next ==
  \/ \E m \in Messages : Request(m)
  \/ ExecuteEmpty
  \/ Execute
  \/ \E o \in AllOutcomes : Downstream(o)
  \/ AgentReturn
  \/ \E e \in Errors : AgentRaise(e)
  \/ NextRequest

Spec == Init /\ [][Next]_vars

\* ------------------------------------------------------------------------
\* Two calls of execute on the same executor, interleaved at their awaits
\* ------------------------------------------------------------------------
OtherRequest(m) ==
  /\ other.pc = "idle"
  /\ other' = [other EXCEPT !.pc = "called", !.message = m]
  /\ UNCHANGED <<locals, fields, notices>>

OtherExecuteEmpty ==
  /\ other.pc = "called"
  /\ extract_query(other.message) = <<>>
  /\ other' = [other EXCEPT !.pc = "done", !.query = extract_query(other.message),
                            !.events = Append(other.events, HelpMessage)]
  /\ UNCHANGED <<locals, fields, notices>>

OtherExecuteSharesLocals ==
  /\ other.pc = "called"
  /\ extract_query(other.message) # <<>>
  /\ \E intent \in {ParseIntent(extract_query(other.message))} :
        /\ other' = [other EXCEPT !.pc = "awaiting", !.query = extract_query(other.message),
                                  !.skill = intent.skill, !.params = intent.params,
                                  !.call = Dispatch(intent.skill, intent.params,
                                                    extract_query(other.message))]
        /\ skill' = intent.skill
        /\ params' = intent.params
  /\ UNCHANGED <<pc, message, query, call, calls, raised, events, fields, notices>>

OtherExecute ==
  /\ other.pc = "called"
  /\ extract_query(other.message) # <<>>
  /\ \E intent \in {ParseIntent(extract_query(other.message))} :
        other' = [other EXCEPT !.pc = "awaiting", !.query = extract_query(other.message),
                               !.skill = intent.skill, !.params = intent.params,
                               !.call = Dispatch(intent.skill, intent.params,
                                                 extract_query(other.message))]
  /\ UNCHANGED <<locals, fields, notices>>

OtherDownstream(o) ==
  /\ other.pc = "awaiting"
  /\ \E step \in {AgentStep(other.call, other.calls)} :
        /\ step.do = "call"
        /\ o \in Outcomes(step.name)
        /\ other' = [other EXCEPT
                       !.calls = Append(other.calls, [name |-> step.name, arg |-> step.arg, out |-> o])]
  /\ UNCHANGED <<locals, fields, notices>>

OtherAgentReturn ==
  /\ other.pc = "awaiting"
  /\ \E step \in {AgentStep(other.call, other.calls)} :
        /\ step.do = "return"
        /\ other' = [other EXCEPT !.pc = "done", !.events = Append(other.events, step.text)]
  /\ UNCHANGED <<locals, fields, notices>>

OtherAgentRaise(e) ==
  /\ other.pc = "awaiting"
  /\ other' = [other EXCEPT !.pc = "done", !.raised = e,
                            !.events = Append(other.events, ExecuteError(other.skill, e))]
  /\ UNCHANGED <<locals, fields, notices>>

OtherNextRequest ==
  /\ other.pc = "done"
  /\ other' = Idle
  /\ UNCHANGED <<locals, fields, notices>>

NextConcurrent ==
  \/ \E m \in ConcurrentMessages : Request(m)
  \/ ExecuteEmpty
  \/ Execute
  \/ \E o \in AllOutcomes : Downstream(o)
  \/ AgentReturn
  \/ \E e \in Errors : AgentRaise(e)
  \/ NextRequest
  \/ \E m \in ConcurrentMessages : OtherRequest(m)
  \/ OtherExecuteEmpty
  \/ OtherExecute
  \/ \E o \in AllOutcomes : OtherDownstream(o)
  \/ OtherAgentReturn
  \/ \E e \in Errors : OtherAgentRaise(e)
  \/ OtherNextRequest

SpecConcurrent == Init /\ [][NextConcurrent]_vars

\* ------------------------------------------------------------------------
\* DynatraceAgentExecutor.cancel, called while execute handles the request
\* ------------------------------------------------------------------------
\* how often the server calls cancel for one request
MaxCancels == 2

TaskCancelled == <<"T","a","s","k"," ","c","a","n","c","e","l","l","e","d",".">>

CancelAborts ==
  /\ pc \in {"called", "awaiting"}
  /\ Len(notices) < MaxCancels
  /\ notices' = Append(notices, TaskCancelled)
  /\ pc' = "done"
  /\ UNCHANGED <<message, query, skill, params, call, calls, raised, events, other, fields>>

\* agent_executor.py:217-225: the server calls cancel for a request it has
\* handed to execute, with a queue of its own
Cancel ==
  /\ pc # "idle"
  /\ Len(notices) < MaxCancels
  /\ notices' = Append(notices, TaskCancelled)
  /\ UNCHANGED <<locals, other, fields>>

\* the requests that are cancelled
CancelledMessages ==
  {Message(<<FilePart>>), Message(<<TextPart(<<"P","-","1">>)>>),
   Message(<<TextPart(<<"H","O","S","T","-","1">>)>>)}

NextCancel ==
  \/ \E m \in CancelledMessages : Request(m)
  \/ ExecuteEmpty
  \/ Execute
  \/ \E o \in AllOutcomes : Downstream(o)
  \/ AgentReturn
  \/ \E e \in Errors : AgentRaise(e)
  \/ NextRequest
  \/ Cancel

SpecCancel == Init /\ [][NextCancel]_vars

\* ------------------------------------------------------------------------
\* The joke agent: JokeAgent and the classifier in front of it
\* ------------------------------------------------------------------------
\* joke_agent.py:24-35: the prompt, up to the topic
JokePrompt(topic) ==
  IF topic # <<>>
  THEN <<"T","e","l","l"," ","m","e"," ","a"," ","f","u","n","n","y",","," ","c","l","e","a","n",","," ","a","n","d"," ","o","r","i","g","i","n","a","l"," ","j","o","k","e"," ","a","b","o","u","t",":"," ">> \o topic
  ELSE <<"T","e","l","l"," ","m","e"," ","a"," ","f","u","n","n","y",","," ","c","l","e","a","n",","," ","a","n","d"," ","o","r","i","g","i","n","a","l"," ","j","o","k","e","."," ">>

tell_joke_always_about(topic, log) ==
  IF Len(log) = 0 THEN Await("generate_content", <<"T","e","l","l"," ","m","e"," ","a"," ","f","u","n","n","y",","," ","c","l","e","a","n",","," ","a","n","d"," ","o","r","i","g","i","n","a","l"," ","j","o","k","e"," ","a","b","o","u","t",":"," ">> \o topic)
  ELSE IF Failed(log, 1)
  THEN Return(<<"O","o","p","s","!"," ","M","y"," ","j","o","k","e"," ","g","e","n","e","r","a","t","o","r"," ","b","r","o","k","e"," ","d","o","w","n","."," ","E","r","r","o","r",":"," ">> \o str(log[1].out))
  ELSE Return(<<"j","o","k","e">>)

\* joke_agent.py:21-44; a topic of None and an empty topic both fail the
\* test "if topic:" and are the empty text here
tell_joke(topic, log) ==
  IF Len(log) = 0 THEN Await("generate_content", JokePrompt(topic))
  ELSE IF Failed(log, 1)
  THEN Return(<<"O","o","p","s","!"," ","M","y"," ","j","o","k","e"," ","g","e","n","e","r","a","t","o","r"," ","b","r","o","k","e"," ","d","o","w","n","."," ","E","r","r","o","r",":"," ">> \o str(log[1].out))
  ELSE Return(<<"j","o","k","e">>)

\* joke_agent.py:46-61
explain_joke(joke, log) ==
  IF Len(log) = 0 THEN Await("generate_content", <<"E","x","p","l","a","i","n"," ","w","h","y"," ","t","h","i","s"," ","j","o","k","e"," ","i","s"," ","f","u","n","n","y"," ","J","o","k","e",":"," ">> \o joke)
  ELSE IF Failed(log, 1)
  THEN Return(<<"S","o","r","r","y",","," ","I"," ","c","o","u","l","d","n","'","t"," ","e","x","p","l","a","i","n"," ","t","h","a","t"," ","j","o","k","e","."," ","E","r","r","o","r",":"," ">> \o str(log[1].out))
  ELSE Return(<<"e","x","p","l","a","n","a","t","i","o","n">>)

\* the operation the joke executor awaits
JokeStep(c, log) ==
  IF c.op = "explain_joke" THEN explain_joke(c.arg, log) ELSE tell_joke(c.arg, log)

\* rule 1: the prefixes that ask for an explanation
ExplainPrefixes == {<<"e","x","p","l","a","i","n",":">>, <<"w","h","y"," ","i","s"," ","t","h","i","s"," ","f","u","n","n","y",":">>}

\* rule 2: the keywords that introduce a topic, in the order they are tried
TopicKeywords == <<<<"a","b","o","u","t">>, <<"o","n">>, <<"r","e","g","a","r","d","i","n","g">>, <<"r","e","l","a","t","e","d"," ","t","o">>>>

\* rule 3: the words that are not part of a topic
StopWords ==
  {<<"t","e","l","l">>, <<"m","e">>, <<"a">>, <<"j","o","k","e">>, <<"p","l","e","a","s","e">>, <<"c","a","n">>, <<"y","o","u">>, <<"g","i","v","e">>,
   <<"a","n","o","t","h","e","r">>, <<"o","n","e">>, <<"m","o","r","e">>}

Punctuation == {"?", "!", ".", ",", ":", ";", "'", "\""}

\* str.rstrip(chars)
RECURSIVE rstrip_chars(_, _)
rstrip_chars(s, chars) ==
  IF Len(s) > 0 /\ s[Len(s)] \in chars THEN rstrip_chars(SubSeq(s, 1, Len(s) - 1), chars) ELSE s

\* str.find, counted from 1; 0 when w is not in s
Find(s, w) ==
  IF Contains(s, w)
  THEN CHOOSE k \in 1..Len(s) :
         /\ SubSeq(s, k, k + Len(w) - 1) = w
         /\ \A l \in 1..(k - 1) : SubSeq(s, l, l + Len(w) - 1) # w
  ELSE 0

\* the text after the first w: s.split(w, 1)[1]
AfterFirst(s, w) == SubSeq(s, Find(s, w) + Len(w), Len(s))

\* the first keyword of the list, from the k-th on, that the text contains;
\* 0 when it contains none
RECURSIVE FirstKeywordFrom(_, _)
FirstKeywordFrom(k, s) ==
  IF k > Len(TopicKeywords) THEN 0
  ELSE IF Contains(s, TopicKeywords[k]) THEN k
  ELSE FirstKeywordFrom(k + 1, s)

\* the words of a text: the runs between white space, without punctuation
RECURSIVE SplitWords(_, _)
SplitWords(s, word) ==
  IF s = <<>> THEN (IF word = <<>> THEN <<>> ELSE <<word>>)
  ELSE IF Head(s) \in Space
  THEN (IF word = <<>> THEN <<>> ELSE <<word>>) \o SplitWords(Tail(s), <<>>)
  ELSE IF Head(s) \in Punctuation THEN SplitWords(Tail(s), word)
  ELSE SplitWords(Tail(s), Append(word, Head(s)))

RECURSIVE JoinWords(_)
JoinWords(ws) ==
  IF ws = <<>> THEN <<>>
  ELSE IF Len(ws) = 1 THEN ws[1]
  ELSE ws[1] \o <<" ">> \o JoinWords(Tail(ws))

\* rule 3: the words left when the stop words are taken out
RemainingWords(s) == SelectSeq(SplitWords(s, <<>>), LAMBDA w : w \notin StopWords)

TellJoke(topic) == [skill |-> "tell_joke", params |-> [topic |-> topic]]

TellAnyJoke == [skill |-> "tell_joke", params |-> NoParams]

ExplainJoke(text) ==
  [skill |-> "explain_joke", params |-> [joke |-> strip(AfterFirst(text, <<":">>))]]

JokeIntentTopicFirst(text) ==
  LET text_lower == strip(lower(text))
      k == FirstKeywordFrom(1, text_lower)
  IN IF k > 0
     THEN TellJoke(rstrip_chars(strip(AfterFirst(text_lower, TopicKeywords[k])), {"?", "!", "."}))
     ELSE IF \E p \in ExplainPrefixes : startswith(text_lower, p)
     THEN ExplainJoke(text)
     ELSE IF Contains(text_lower, <<"j","o","k","e">>) /\ RemainingWords(text_lower) # <<>>
     THEN TellJoke(JoinWords(RemainingWords(text_lower)))
     ELSE TellAnyJoke

\* the four rules of the joke classifier, applied to the lower-cased text;
\* the explained joke is cut from the text as received
JokeIntent(text) ==
  LET text_lower == strip(lower(text))
      k == FirstKeywordFrom(1, text_lower)
  IN IF \E p \in ExplainPrefixes : startswith(text_lower, p)
     THEN ExplainJoke(text)
     ELSE IF k > 0
     THEN TellJoke(rstrip_chars(strip(AfterFirst(text_lower, TopicKeywords[k])), {"?", "!", "."}))
     ELSE IF Contains(text_lower, <<"j","o","k","e">>) /\ RemainingWords(text_lower) # <<>>
     THEN TellJoke(JoinWords(RemainingWords(text_lower)))
     ELSE TellAnyJoke

\* the requests for a joke: an opening with or without a topic
JokeOpenings == {<<"T","e","l","l"," ","m","e"," ","a"," ","j","o","k","e">>, <<"C","a","n"," ","y","o","u"," ","g","i","v","e"," ","m","e"," ","a","n","o","t","h","e","r"," ","j","o","k","e">>, <<"J","o","k","e">>}

JokeTopics ==
  {<<>>, <<" ","a","b","o","u","t"," ","p","r","o","g","r","a","m","m","i","n","g">>, <<" ","a","b","o","u","t"," ","c","a","t","s","?">>, <<" ","o","n"," ","c","a","t","s"," ","a","b","o","u","t"," ","d","o","g","s">>,
   <<" ","a","b","o","u","t"," ","c","a","t","s"," ","a","b","o","u","t"," ","d","o","g","s">>, <<" ","r","e","g","a","r","d","i","n","g"," ","w","o","r","k",".">>, <<" ","r","e","l","a","t","e","d"," ","t","o"," ","d","o","g","s","!">>}

\* the requests for an explanation, one of them of a joke with a keyword
Explanations ==
  {p \o j : p \in {<<"E","x","p","l","a","i","n",":"," ">>, <<"E","X","P","L","A","I","N",":">>, <<"W","h","y"," ","i","s"," ","t","h","i","s"," ","f","u","n","n","y",":"," ">>},
            j \in {<<"w","h","y"," ","d","i","d"," ","t","h","e"," ","c","h","i","c","k","e","n"," ","c","r","o","s","s"," ","t","h","e"," ","r","o","a","d","?">>, <<"a"," ","j","o","k","e"," ","a","b","o","u","t"," ","c","a","t","s">>}}

\* test_client.py:120-125 and their like; the keywords stand as whole
\* words and the texts are lower case after the opening
JokeTexts ==
  {o \o t : o \in JokeOpenings, t \in JokeTopics} \cup Explanations
    \cup {<<"T","e","l","l"," ","m","e"," ","a"," ","c","a","t"," ","j","o","k","e">>, <<"H","e","l","l","o">>, <<"M","a","k","e"," ","m","e"," ","l","a","u","g","h"," ","p","l","e","a","s","e">>}

JokeMessages == {Message(<<TextPart(t)>>) : t \in JokeTexts}

\* the joke executor extracts the text, classifies it and calls the agent
JokeExecute ==
  /\ pc = "called"
  /\ \E intent \in {JokeIntent(extract_query(message))} :
        /\ skill' = intent.skill
        /\ params' = intent.params
        /\ call' = [op |-> intent.skill,
                    arg |-> IF intent.skill = "explain_joke" THEN intent.params.joke
                            ELSE Get(intent.params, "topic", <<>>),
                    branch |-> "none"]
  /\ query' = extract_query(message)
  /\ pc' = "awaiting"
  /\ UNCHANGED <<message, calls, raised, events, other, fields, notices>>

\* joke_agent.py:37-41 and 53-57: the agent asks the AI service
JokeGenerate(o) ==
  /\ pc = "awaiting"
  /\ \E step \in {JokeStep(call, calls)} :
        /\ step.do = "call"
        /\ o \in Outcomes(step.name)
        /\ calls' = Append(calls, [name |-> step.name, arg |-> step.arg, out |-> o])
  /\ UNCHANGED <<pc, message, query, skill, params, call, raised, events, other, fields, notices>>

\* joke_agent.py:42-44 and 58-61: the agent returns and the executor
\* enqueues the text
JokeReturn ==
  /\ pc = "awaiting"
  /\ \E step \in {JokeStep(call, calls)} :
        /\ step.do = "return"
        /\ events' = Append(events, step.text)
  /\ pc' = "done"
  /\ UNCHANGED <<message, query, skill, params, call, calls, raised, other, fields, notices>>

NextJoke ==
  \/ \E m \in JokeMessages : Request(m)
  \/ JokeExecute
  \/ \E o \in Outcomes("generate_content") : JokeGenerate(o)
  \/ JokeReturn
  \/ NextRequest

SpecJoke == Init /\ [][NextJoke]_vars

\* ------------------------------------------------------------------------
\* Properties of the classifier
\* ------------------------------------------------------------------------
\* the action tags of the class docstring, agent_executor.py:23-28
Skills ==
  {"get_problems", "analyze_problem", "get_topology", "get_health", "create_incident", "query"}

\* execute has classified the text of the request
Classified == pc \in {"awaiting", "done"} /\ query # <<>>

HasPrefix(s, p) == Len(s) >= Len(p) /\ SubSeq(s, 1, Len(p)) = p

Rest(s, p) == SubSeq(s, Len(p) + 1, Len(s))

AllIn(s, S) == \A k \in 1..Len(s) : s[k] \in S

\* P-<digits>
IsProblemId(s) ==
  /\ Len(s) >= 3
  /\ s[1] = "P" /\ s[2] = "-"
  /\ AllIn(SubSeq(s, 3, Len(s)), Digit)

\* C1: every classified request carries one of the six action tags, and the
\* dispatcher's final else branch is taken only with the tag query.
C1_ActionEnumeration ==
  Classified =>
    /\ skill \in Skills
    /\ call.branch = "else" <=> skill = "query"

C1_Witness == pc = "awaiting" /\ call.branch = "else" /\ skill = "query"

\* C2: a problem id alone, typed in either case, is classified as
\* analyze_problem with the id in upper case.
C2_BareProblemId ==
  (Classified /\ IsProblemId(upper(query))) =>
    /\ skill = "analyze_problem"
    /\ params = [problem_id |-> upper(query)]

C2_Witness ==
  /\ pc = "awaiting"
  /\ IsProblemId(upper(query)) /\ query[1] = "p"
  /\ skill = "analyze_problem"

\* C3: "list issues from the last 7 days", in any letter case, is classified
\* as get_problems with time_range "7d".
C3_ListIssuesLast7Days ==
  (Classified /\ lower(query) = lower(ListIssuesExample)) =>
    /\ skill = "get_problems"
    /\ params = [time_range |-> <<"7", "d">>]

\* first position from i on whose character is not in S
RECURSIVE SkipFrom(_, _, _)
SkipFrom(s, i, S) == IF i <= Len(s) /\ s[i] \in S THEN SkipFrom(s, i + 1, S) ELSE i

\* the text has "last" or "past" at position i, then a number, then h, d or w,
\* with optional white space between them
TimeExprAt(s, i) ==
  /\ i + 3 <= Len(s)
  /\ SubSeq(s, i, i + 3) \in {<<"l","a","s","t">>, <<"p","a","s","t">>}
  /\ LET j == SkipFrom(s, i + 4, Space)
         k == SkipFrom(s, j, Digit)
         m == SkipFrom(s, k, Space)
     IN k > j /\ m <= Len(s) /\ s[m] \in {"h", "d", "w"}

\* the number and the unit letter of the time expression at position i
TimeExprToken(s, i) ==
  LET j == SkipFrom(s, i + 4, Space)
      k == SkipFrom(s, j, Digit)
      m == SkipFrom(s, k, Space)
  IN SubSeq(s, j, k - 1) \o <<s[m]>>

ExpectedTimeRange(s) ==
  IF \E i \in 1..Len(s) : TimeExprAt(s, i)
  THEN LET i == CHOOSE i \in 1..Len(s) :
                  TimeExprAt(s, i) /\ \A l \in 1..(i - 1) : ~TimeExprAt(s, l)
       IN TimeExprToken(s, i)
  ELSE <<"2", "4", "h">>

\* C4: a problem listing carries the number and the first letter of the unit
\* of the relative time expression in the lower-cased text, and "24h" when
\* the text has no such expression.
C4_TimeRange ==
  (Classified /\ skill = "get_problems") =>
    params = [time_range |-> ExpectedTimeRange(lower(query))]

C4_Witness ==
  /\ pc = "awaiting" /\ skill = "get_problems"
  /\ \E i \in 1..Len(query) : TimeExprAt(lower(query), i)
  /\ params.time_range = <<"1", "7", "w">>

\* C5: "Analyze P-N", "Root cause for P-N" and "Investigate problem P-N" are
\* classified as analyze_problem with problem_id "P-N".
C5_AnalysisPhrasings ==
  \A p \in AnalyzePhrases :
    (Classified /\ HasPrefix(query, p) /\ IsProblemId(Rest(query, p))) =>
      /\ skill = "analyze_problem"
      /\ params = [problem_id |-> Rest(query, p)]

\* C6: "Topology for N" is classified as get_topology with service_name N,
\* character for character.
C6_TopologyKeepsName ==
  (/\ Classified
   /\ HasPrefix(query, TopologyFor)
   /\ Len(query) > Len(TopologyFor)
   /\ AllIn(Rest(query, TopologyFor), NameChar)) =>
    /\ skill = "get_topology"
    /\ params = [service_name |-> Rest(query, TopologyFor)]

\* TYPE-ID in any letter case
IsEntityId(s) ==
  \E t \in EntityTypes :
    /\ HasPrefix(upper(s), t \o <<"-">>)
    /\ Len(s) > Len(t) + 1
    /\ AllIn(Rest(upper(s), t \o <<"-">>), UpperAlnum)

\* C7: "health|status|metrics|check for|of TYPE-ID" is classified as
\* get_health with entity_id TYPE-ID in upper case.
C7_HealthOfEntity ==
  \A p \in HealthPhrases :
    (Classified /\ HasPrefix(query, p) /\ IsEntityId(Rest(query, p))) =>
      /\ skill = "get_health"
      /\ params = [entity_id |-> upper(Rest(query, p))]

\* C8: "Create incident for P-N" and "ServiceNow summary P-N", in any letter
\* case, are classified as create_incident with problem_id "P-N".
C8_IncidentPhrasings ==
  \A p \in IncidentPhrases :
    (/\ Classified
     /\ HasPrefix(lower(query), lower(p))
     /\ IsProblemId(upper(Rest(query, p)))) =>
      /\ skill = "create_incident"
      /\ params = [problem_id |-> upper(Rest(query, p))]

C8_Witness ==
  /\ pc = "awaiting"
  /\ \E p \in IncidentPhrases :
       /\ HasPrefix(query, lower(p))
       /\ IsProblemId(upper(Rest(query, p)))
  /\ skill = "create_incident"

\* the rule groups in the order of the source: 1 problem listing, 2 problem
\* analysis (phrase patterns, then the id alone), 3 topology, 4 entity
\* health, 5 incident creation
RuleMatches(g, q) ==
  LET query_lower == strip(lower(q))
  IN CASE g = 1 -> AnyMatch(problem_patterns, query_lower, FALSE)
       [] g = 2 -> \/ AnyMatch(analyze_patterns, query_lower, TRUE)
                   \/ re_match(bare_id_pattern, strip(q), TRUE).ok
       [] g = 3 -> AnyMatch(topology_patterns, query_lower, FALSE)
       [] g = 4 -> AnyMatch(health_patterns, q, TRUE)
       [] g = 5 -> AnyMatch(incident_patterns, query_lower, TRUE)

RuleSkill ==
  <<"get_problems", "analyze_problem", "get_topology", "get_health", "create_incident", "query">>

\* the first rule group that matches q, 6 when none does
RECURSIVE FirstRuleFrom(_, _)
FirstRuleFrom(g, q) ==
  IF g = 6 \/ RuleMatches(g, q) THEN g ELSE FirstRuleFrom(g + 1, q)

\* C9: a text that matches none of the five rule groups is classified as
\* query, and the question is the text exactly as received.
C9_FallbackVerbatim ==
  (pc = "awaiting" /\ calls = <<>>) =>
    /\ FirstRuleFrom(1, query) = 6 => skill = "query"
    /\ skill = "query" => params = [question |-> query]

C9_Witness ==
  /\ pc = "awaiting" /\ skill = "query"
  /\ query[1] \in Space
  /\ \E k \in 1..Len(query) : query[k] \in UpperSet
  /\ FirstRuleFrom(1, query) = 6

\* C10: the action is that of the first rule group, in the fixed order,
\* whose pattern matches, whatever later groups match as well.
C10_FirstMatchWins ==
  (pc = "awaiting" /\ calls = <<>>) => skill = RuleSkill[FirstRuleFrom(1, query)]

C10_Witness ==
  /\ pc = "awaiting"
  /\ skill = "get_problems"
  /\ RuleMatches(1, query) /\ RuleMatches(2, query)


\* ------------------------------------------------------------------------
\* Properties of execute and of the agent operations
\* ------------------------------------------------------------------------
\* the request carries no text: no message, no parts, or no part with a
\* non-empty text
NoText(m) ==
  \/ ~m.present
  \/ \A k \in 1..Len(m.parts) : ~m.parts[k].has_text \/ m.parts[k].text = <<>>

\* C12: when the request carries no text, execute enqueues the help message
\* as the single response and returns without calling the classifier or
\* any agent operation.
C12_NoTextGetsHelp ==
  (pc \notin {"idle", "called"} /\ NoText(message)) =>
    /\ pc = "done"
    /\ events = <<HelpMessage>>
    /\ skill = "none" /\ params = NoParams
    /\ call = NoCall /\ calls = <<>>

C12_Witness ==
  /\ pc = "done"
  /\ message = Message(<<FilePart, TextPart(<<>>)>>)
  /\ events = <<HelpMessage>>

\* C13 as stated: a non-empty input that matches none of the classification
\* rules is answered with the help message.
C13_NoMatchGetsHelp ==
  (pc = "done" /\ query # <<>> /\ FirstRuleFrom(1, query) = 6) => events = <<HelpMessage>>

\* C13: a non-empty input that matches none of the classification rules is
\* handed verbatim to the natural-language query operation, and the response
\* is what that operation returns (the AI answer, the note that the AI is
\* unavailable, or the error text of the query skill), never the help
\* message.
C13_NoMatchIsAnswered ==
  /\ (pc = "awaiting" /\ calls = <<>> /\ FirstRuleFrom(1, query) = 6) =>
        call = [op |-> "query", arg |-> query, branch |-> "else"]
  /\ (pc = "done" /\ call.op = "query" /\ raised = "none") =>
        /\ events # <<HelpMessage>>
        /\ \/ events = <<<<"a","n","a","l","y","s","i","s">>>>
           \/ \E e \in Errors :
                \/ events = <<<<"A","I"," ","a","n","a","l","y","s","i","s"," ","u","n","a","v","a","i","l","a","b","l","e",":"," ">> \o str(e)>>
                \/ events = <<SkillErrorMark \o <<" ","E","r","r","o","r"," ","p","r","o","c","e","s","s","i","n","g"," ","q","u","e","r","y",":"," ">> \o str(e)>>

C13_Witness ==
  /\ pc = "done"
  /\ query = <<"H","e","l","l","o">>
  /\ call.op = "query"
  /\ events = <<<<"a","n","a","l","y","s","i","s">>>>

\* C14: if the agent operation raises an Exception, execute does not
\* propagate it: it enqueues "<marker> Error executing <action>: <str(e)>",
\* returns normally, and the executor takes the next request.
C14_RaisedIsReported ==
  raised # "none" =>
    /\ pc = "done"
    /\ skill \in Skills
    /\ events = << <<ErrorMarker>> \o <<" ","E","r","r","o","r"," ","e","x","e","c","u","t","i","n","g"," ">> \o SkillName(skill) \o <<":"," ">>
                   \o str(raised) >>
    /\ ENABLED NextRequest

C14_Witness ==
  /\ pc = "done"
  /\ raised = "ConnectError"
  /\ skill = "analyze_problem"
  /\ events = <<ExecuteError("analyze_problem", "ConnectError")>>

\* C15 as stated: for every action, when a downstream call fails the text
\* returned is prefixed with the error marker and contains both the action
\* name and the failure's string representation.
C15_FailureNamesAction ==
  (pc = "done" /\ Len(events) = 1) =>
    \A k \in 1..Len(calls) :
      calls[k].out \in Errors =>
        /\ events[1][1] = ErrorMarker
        /\ Contains(events[1], SkillName(skill))
        /\ Contains(events[1], str(calls[k].out))

\* C16: a call of execute that runs to completion has enqueued exactly one
\* text message, on every path, and none before it completes.
C16_ExactlyOneMessage == IF pc = "done" THEN Len(events) = 1 ELSE events = <<>>

C16_Witness ==
  /\ pc = "done"
  /\ raised = "none"
  /\ calls # <<>>
  /\ Len(events) = 1

\* the operation and the parameter the dispatcher is to use for an action
OperationOf ==
  [get_problems |-> <<"get_open_problems", "time_range">>,
   analyze_problem |-> <<"analyze_problem", "problem_id">>,
   get_topology |-> <<"get_service_topology", "service_name">>,
   get_health |-> <<"get_entity_health", "entity_id">>,
   create_incident |-> <<"create_incident_summary", "problem_id">>,
   query |-> <<"query", "question">>]

\* C17: the dispatcher maps each action to its one agent operation and
\* passes the classifier's parameter unchanged; one operation is invoked
\* for a request with text and none for a request without.
C17_DispatchTable ==
  /\ Classified =>
       /\ skill \in DOMAIN OperationOf
       /\ call.op = OperationOf[skill][1]
       /\ DOMAIN params = {OperationOf[skill][2]}
       /\ call.arg = params[OperationOf[skill][2]]
  /\ ~Classified => call = NoCall

C17_Witness ==
  /\ pc = "awaiting"
  /\ skill = "create_incident"
  /\ call.op = "create_incident_summary"
  /\ call.arg = params["problem_id"]

\* C18: every example advertised for the natural-language query skill is
\* classified as query and matches none of the five structured rules.
C18_QueryExamples ==
  (pc = "awaiting" /\ calls = <<>> /\ query \in QueryExamples) =>
    /\ skill = "query"
    /\ FirstRuleFrom(1, query) = 6

\* the response of a request served alone: a function of its message and
\* of the answers its own calls got
AloneResponse(m, log, r) ==
  IF extract_query(m) = <<>> THEN HelpMessage
  ELSE LET i == ParseIntent(extract_query(m))
       IN  IF r # "none" THEN ExecuteError(i.skill, r)
           ELSE AgentStep(Dispatch(i.skill, i.params, extract_query(m)), log).text

\* C19: when two calls of execute interleave at their awaits, each enqueues
\* the response it would produce alone given the same backend answers, and
\* no attribute of the executor, the agent or the client is written.
C19_Independent ==
  /\ fields = Constructed
  /\ pc = "done" => events = <<AloneResponse(message, calls, raised)>>
  /\ other.pc = "done" => other.events = <<AloneResponse(other.message, other.calls, other.raised)>>

C19_Witness ==
  /\ pc = "done" /\ other.pc = "done"
  /\ skill = "analyze_problem" /\ other.skill = "query"
  /\ raised # "none" /\ other.calls # <<>>

\* C20: within a request no external call is issued before _parse_intent
\* has returned, and the step that classifies issues none.
C20_ClassifyBeforeCalls ==
  [][/\ pc = "called" => calls' = calls
     /\ Len(calls') > Len(calls) => (pc = "awaiting" /\ skill \in Skills /\ query # <<>>)]_vars

C20_Witness ==
  /\ pc = "awaiting"
  /\ skill \in Skills
  /\ Len(calls) = 2

\* [0-9]+[hdw]
IsTimeRange(s) ==
  /\ Len(s) >= 2
  /\ AllIn(SubSeq(s, 1, Len(s) - 1), Digit)
  /\ s[Len(s)] \in {"h", "d", "w"}

\* (HOST|SERVICE|PROCESS|APPLICATION)-[A-Z0-9]+
IsUpperEntityId(s) ==
  \E t \in EntityTypes :
    /\ HasPrefix(s, t \o <<"-">>)
    /\ Len(s) > Len(t) + 1
    /\ AllIn(Rest(s, t \o <<"-">>), UpperAlnum)

\* C24: the parameters of a classified request have the shape promised for
\* its action: time_range is [0-9]+[hdw], problem_id is P-[0-9]+, entity_id
\* is TYPE-[A-Z0-9]+, service_name is a non-empty run of [A-Za-z0-9_.-],
\* and the mapping has that one key.
C24_ParameterShapes ==
  Classified =>
    CASE skill = "get_problems" ->
           DOMAIN params = {"time_range"} /\ IsTimeRange(params.time_range)
      [] skill \in {"analyze_problem", "create_incident"} ->
           DOMAIN params = {"problem_id"} /\ IsProblemId(params.problem_id)
      [] skill = "get_health" ->
           DOMAIN params = {"entity_id"} /\ IsUpperEntityId(params.entity_id)
      [] skill = "get_topology" ->
           /\ DOMAIN params = {"service_name"}
           /\ params.service_name # <<>>
           /\ AllIn(params.service_name, NameChar)
      [] OTHER -> TRUE

UnitWordSet ==
  {<<"h">>, <<"h","o","u","r">>, <<"h","o","u","r","s">>,
   <<"d">>, <<"d","a","y">>, <<"d","a","y","s">>,
   <<"w">>, <<"w","e","e","k">>, <<"w","e","e","k","s">>}

\* the text has "last" or "past" at position i, then a number, then a word
\* that is not a time unit, with optional white space between them
OtherWordAt(s, i) ==
  /\ i + 3 <= Len(s)
  /\ SubSeq(s, i, i + 3) \in {<<"l","a","s","t">>, <<"p","a","s","t">>}
  /\ LET j == SkipFrom(s, i + 4, Space)
         k == SkipFrom(s, j, Digit)
         m == SkipFrom(s, k, Space)
         n == SkipFrom(s, m, LowerSet)
     IN k > j /\ n > m /\ SubSeq(s, m, n - 1) \notin UnitWordSet

\* C25: a problem listing whose only "last N" or "past N" is followed by a
\* word that is not a time unit carries the default time range "24h".
C25_UnknownUnitDefaults ==
  (/\ Classified /\ skill = "get_problems"
   /\ \E i \in 1..Len(query) : OtherWordAt(lower(query), i)
   /\ \A i \in 1..Len(query) :
        TimeExprAt(lower(query), i) => OtherWordAt(lower(query), i)) =>
    params.time_range = <<"2", "4", "h">>

\* the rule that returned the action of the classified request
MatchedPatterns == IF skill = "analyze_problem" THEN analyze_patterns ELSE incident_patterns

\* the identifier captured by the first pattern of the rule that matches the
\* normalised text
CapturedId(q) ==
  LET query_lower == strip(lower(q))
  IN group(query_lower, FirstMatch(MatchedPatterns, query_lower, TRUE), 1)

\* C26: when a keyword pattern returned analyze_problem or create_incident
\* for a text that names two problems, the problem_id is the identifier that
\* pattern captured next to its keyword, in upper case.
C26_IdNextToKeyword ==
  (/\ pc = "awaiting" /\ calls = <<>> /\ query \in TwoIdTexts
   /\ skill \in {"analyze_problem", "create_incident"}
   /\ AnyMatch(MatchedPatterns, strip(lower(query)), TRUE)) =>
    params.problem_id = upper(CapturedId(query))

\* C27: a text of white space only is answered like an empty one: with the
\* help message, unclassified and without any call.
C27_BlankGetsHelp ==
  (pc \notin {"idle", "called"} /\ ~NoText(message) /\ strip(extract_query(message)) = <<>>) =>
    /\ pc = "done"
    /\ events = <<HelpMessage>>
    /\ skill = "none"
    /\ call = NoCall /\ calls = <<>>

\* the names of the calls of a log, in the order they were issued
Names(log) == [k \in 1..Len(log) |-> log[k].name]

IsPrefix(s, t) == Len(s) <= Len(t) /\ SubSeq(t, 1, Len(s)) = s

\* the response is an error text of a skill
IsSkillError(text) == startswith(text, SkillErrorMark)

\* C28: analyze_problem calls for the problem details, then for the recent
\* deployments, then for the AI analysis; the deployments are looked up only
\* for a root cause entity with an id; their failure is passed over and the
\* AI is still called, while a failure of the details ends the skill with an
\* error text and no further call.
C28_AnalyzeCallOrder ==
  call.op = "analyze_problem" =>
    /\ IF Len(calls) > 0 /\ calls[1].out = "root_cause_entity"
       THEN IsPrefix(Names(calls), <<"get_problem_details", "get_recent_deployments", "generate_content">>)
       ELSE IsPrefix(Names(calls), <<"get_problem_details", "generate_content">>)
    /\ Failed(calls, 1) => Len(calls) = 1
    /\ (pc = "done" /\ raised = "none") =>
         /\ calls # <<>>
         /\ IF Failed(calls, 1)
            THEN IsSkillError(events[1])
            ELSE /\ calls[Len(calls)].name = "generate_content"
                 /\ ~IsSkillError(events[1])

C28_Witness ==
  /\ pc = "done" /\ call.op = "analyze_problem" /\ raised = "none"
  /\ Names(calls) = <<"get_problem_details", "get_recent_deployments", "generate_content">>
  /\ Failed(calls, 2)
  /\ ~IsSkillError(events[1])

HasAny(s, words) == \E w \in words : Contains(s, w)

\* the fetches the claim expects for a question, in order
ExpectedFetches(question) ==
  LET question_lower == lower(question)
  IN (IF HasAny(question_lower, {<<"p","r","o","b","l","e","m">>, <<"i","s","s","u","e">>,
                                 <<"a","l","e","r","t">>, <<"i","n","c","i","d","e","n","t">>})
      THEN <<"problems">> ELSE <<>>)
     \o (IF HasAny(question_lower, {<<"s","e","r","v","i","c","e">>,
                                    <<"a","p","p","l","i","c","a","t","i","o","n">>})
         THEN <<"services">> ELSE <<>>)
     \o (IF HasAny(question_lower, {<<"h","o","s","t">>, <<"s","e","r","v","e","r">>,
                                    <<"i","n","f","r","a","s","t","r","u","c","t","u","r","e">>})
         THEN <<"hosts">> ELSE <<>>)
     \o <<"ai">>

\* what a call of the log fetches
Fetched(c) ==
  IF c.name = "get_problems" THEN "problems"
  ELSE IF c.name = "get_entities" /\ Contains(c.arg, <<"S","E","R","V","I","C","E">>) THEN "services"
  ELSE IF c.name = "get_entities" /\ Contains(c.arg, <<"H","O","S","T">>) THEN "hosts"
  ELSE IF c.name = "generate_content" THEN "ai"
  ELSE "other"

\* C29: query fetches the problems, the services and the hosts exactly when
\* the lower-cased question has their keywords, in that order, and then
\* calls the AI once; when a fetch fails no AI call is made and an error
\* text is returned.
C29_QueryFetches ==
  call.op = "query" =>
    /\ IsPrefix([k \in 1..Len(calls) |-> Fetched(calls[k])], ExpectedFetches(call.arg))
    /\ \A k \in 1..(Len(calls) - 1) : ~Failed(calls, k)
    /\ (pc = "done" /\ raised = "none") =>
         IF Failed(calls, Len(calls)) /\ calls[Len(calls)].name # "generate_content"
         THEN IsSkillError(events[1])
         ELSE /\ Len(calls) = Len(ExpectedFetches(call.arg))
              /\ ~IsSkillError(events[1])

C29_Witness ==
  /\ pc = "done" /\ call.op = "query" /\ raised = "none"
  /\ [k \in 1..Len(calls) |-> Fetched(calls[k])] = <<"problems", "services", "hosts", "ai">>
  /\ ~IsSkillError(events[1])

AdvertisedSkillsWithoutQuery ==
  {"get_problems", "analyze_problem", "get_topology", "get_health", "create_incident"}

\* main.py:123-130 with the ids of lines 24, 37, 50, 63, 76 and 88: the
\* skills of the agent card
AdvertisedSkills ==
  {"get_problems", "analyze_problem", "get_topology", "get_health", "create_incident", "query"}

\* C30: the skills advertised in the agent card are the actions of the
\* classifier: every classified request carries an advertised skill, and
\* every advertised skill is returned for some text.
C30_CardMatchesClassifier ==
  /\ Classified => skill \in AdvertisedSkills
  /\ pc = "idle" =>
       \A s \in AdvertisedSkills : \E q \in Inputs \ {<<>>} : ParseIntent(q).skill = s

C30_Witness ==
  /\ pc = "awaiting"
  /\ skill = "get_topology"
  /\ skill \in AdvertisedSkills
  /\ call.op = "get_service_topology"

\* C23: a call of cancel appends the one message "Task cancelled." to its
\* queue and changes nothing else, so the call of execute in flight for the
\* request goes on and enqueues the response it would have produced anyway.
C23_CancelOnlyNotifies ==
  [][/\ Len(notices') > Len(notices) =>
          /\ notices' = Append(notices, TaskCancelled)
          /\ UNCHANGED <<locals, other, fields>>
     /\ (pc' = "done" /\ notices' # <<>>) =>
          events' = <<AloneResponse(message', calls', raised')>>]_vars

C23_Witness ==
  /\ pc = "awaiting"
  /\ calls # <<>>
  /\ notices = <<TaskCancelled>>
  /\ events = <<>>

\* the joke executor has classified the text of the request
JokeClassified == pc \in {"awaiting", "done"} /\ skill \in {"tell_joke", "explain_joke"}

HasExplainPrefix(s) == \E p \in ExplainPrefixes : HasPrefix(lower(s), p)

\* the text after the first occurrence of the first listed keyword that s
\* contains
AfterKeyword(s) ==
  LET k == CHOOSE k \in 1..Len(TopicKeywords) :
             /\ Contains(s, TopicKeywords[k])
             /\ \A l \in 1..(k - 1) : ~Contains(s, TopicKeywords[l])
      w == TopicKeywords[k]
      i == CHOOSE i \in 1..Len(s) :
             /\ SubSeq(s, i, i + Len(w) - 1) = w
             /\ \A l \in 1..(i - 1) : SubSeq(s, l, l + Len(w) - 1) # w
  IN SubSeq(s, i + Len(w), Len(s))

\* C21: a text with a topic keyword and no explain prefix is classified as
\* tell_joke with the topic that follows the first occurrence of the first
\* listed keyword it contains, trimmed and without trailing "?", "!", ".";
\* a text with no keyword and no word left has no topic, and the generator
\* is asked with the prompt that names none.
C21_TopicAfterKeyword ==
  (JokeClassified /\ ~HasExplainPrefix(query)) =>
    LET s == strip(lower(query))
    IN IF \E k \in 1..Len(TopicKeywords) : Contains(s, TopicKeywords[k])
       THEN /\ skill = "tell_joke"
            /\ params = [topic |-> rstrip_chars(strip(AfterKeyword(s)), {"?", "!", "."})]
       ELSE RemainingWords(s) = <<>> =>
              /\ skill = "tell_joke"
              /\ params = NoParams
              /\ calls # <<>> => calls[1].arg = <<"T","e","l","l"," ","m","e"," ","a"," ","f","u","n","n","y",","," ","c","l","e","a","n",","," ","a","n","d"," ","o","r","i","g","i","n","a","l"," ","j","o","k","e","."," ">>

C21_Witness ==
  /\ pc = "done"
  /\ query = <<"T","e","l","l"," ","m","e"," ","a"," ","j","o","k","e"," ","o","n"," ","c","a","t","s"," ","a","b","o","u","t"," ","d","o","g","s">>
  /\ skill = "tell_joke"
  /\ params = [topic |-> <<"d","o","g","s">>]

\* C22: a text that begins with "explain:" or "why is this funny:" in any
\* case is classified as explain_joke with the trimmed text after the first
\* colon, also when that text has a topic keyword.
C22_ExplainFirst ==
  (JokeClassified /\ HasExplainPrefix(query)) =>
    /\ skill = "explain_joke"
    /\ \E i \in 1..Len(query) :
         /\ query[i] = ":"
         /\ \A l \in 1..(i - 1) : query[l] # ":"
         /\ params = [joke |-> strip(SubSeq(query, i + 1, Len(query)))]

C22_Witness ==
  /\ pc = "done"
  /\ query = <<"E","X","P","L","A","I","N",":","a"," ","j","o","k","e"," ","a","b","o","u","t"," ","c","a","t","s">>
  /\ skill = "explain_joke"
  /\ params = [joke |-> <<"a"," ","j","o","k","e"," ","a","b","o","u","t"," ","c","a","t","s">>]

====
